---- MODULE Spec2Model ----
(***************************************************************************)
(* Word-document revision subsystem of phpbot (skills/word-documents):     *)
(* the tracked-change resolver (track_changes.py), the diff engine and     *)
(* redline generator (compare.py) and the comment manager (comments.py).   *)
(*                                                                         *)
(* The document body is an lxml element tree.  It is modelled as an arena: *)
(* a sequence of node records addressed by their index, node 1 being the   *)
(* body.  A node that has been removed from its parent keeps its record    *)
(* (and its own children), exactly like a detached lxml element.           *)
(***************************************************************************)
EXTENDS Integers, Sequences, FiniteSets, TLC

VARIABLES
    phase,      \* position of the session: which command may run next
    doc,        \* the element tree of the document on disk (arena)
    nfrags,     \* number of fragments the document under test was built from
    first,      \* record of the first command run on the document
    second,     \* record of the second command run on the document
    revisedParas,\* compare.py: the paragraphs of the revised document
    granularity,\* compare.py: --granularity
    diffs,      \* compare.py: the result of compare_paragraphs
    commentsPart,\* comments.py: whether the package has a comments part
    comments,   \* comments.py: the w:comment records of the comments part
    cmd,        \* comments.py: the last comments command and how it ended
    allocated,  \* comments.py: the ids add_comment has handed out, in order
    ncmds,      \* comments.py: number of comments commands run
    files,      \* merge.py: the documents named on the command line, in order
    headings,   \* format.py: per paragraph, n for style 'Heading n', 0 for any other
    styles      \* format.py: the levels n whose style 'Heading n' is defined

compareVars == <<revisedParas, granularity, diffs>>
commentVars == <<commentsPart, comments, cmd, allocated, ncmds>>
toolVars == <<files, headings, styles>>
vars == <<phase, doc, nfrags, first, second, compareVars, commentVars, toolVars>>

-----------------------------------------------------------------------------
(* Bounds of the model *)

\* fragments (runs, markers, property blocks) a document under test holds
MaxFrags == 2

-----------------------------------------------------------------------------
(* The element tree *)

NoNode == 0
Body == 1

\* authors appearing on revision markers of the documents under test
Authors == {"X", "Y"}

\* author_filter values: "" stands for None (both are falsy in the code)
Filters == {""} \cup Authors

MarkerTags == {"ins", "del", "rPrChange", "pPrChange", "sectPrChange"}

Element(tag, author, wid, text, parent) ==
    [tag |-> tag, author |-> author, wid |-> wid, val |-> <<>>, text |-> text,
     parent |-> parent, kids |-> <<>>]

\* etree.SubElement(parent, tag): a new element appended as parent's last child
SubElement(d, p, tag, author, wid, text) ==
    [Append(d, Element(tag, author, wid, text, p))
        EXCEPT ![p].kids = Append(@, Len(d) + 1)]

\* the node SubElement has just created
Last(d) == Len(d)

\* element.set(w:val, v)
SetVal(d, n, v) == [d EXCEPT ![n].val = v]

\* list(parent).index(child), 0-based as in Python
IndexOf(seq, x) == (CHOOSE i \in 1..Len(seq) : seq[i] = x) - 1

\* list.insert(pos, x) with a 0-based position (past the end: append)
InsertAt(seq, pos, x) ==
    LET q == IF pos > Len(seq) THEN Len(seq) ELSE pos
    IN SubSeq(seq, 1, q) \o <<x>> \o SubSeq(seq, q + 1, Len(seq))

\* parent.remove(child): the child is detached and keeps its subtree
RemoveChild(d, p, c) ==
    [d EXCEPT ![p].kids = SelectSeq(@, LAMBDA k : k # c),
              ![c].parent = NoNode]

\* parent.insert(pos, child) of a detached child
InsertChild(d, p, pos, c) ==
    [d EXCEPT ![p].kids = InsertAt(@, pos, c),
              ![c].parent = p]

\* parent.append(child) of a detached child
AppendChild(d, p, c) ==
    [d EXCEPT ![p].kids = Append(@, c),
              ![c].parent = p]

RECURSIVE Iter(_, _)
RECURSIVE IterAll(_, _)
\* element.iter(): the element and its descendants in document order
Iter(d, n) == <<n>> \o IterAll(d, d[n].kids)
IterAll(d, ks) ==
    IF ks = <<>> THEN <<>> ELSE Iter(d, Head(ks)) \o IterAll(d, Tail(ks))

\* list(element.iter(tag))
IterTag(d, n, tag) == SelectSeq(Iter(d, n), LAMBDA k : d[k].tag = tag)

\* element.find(tag): the first direct child with that tag, NoNode for None
Find(d, n, tag) ==
    LET hits == SelectSeq(d[n].kids, LAMBDA k : d[k].tag = tag)
    IN IF hits = <<>> THEN NoNode ELSE Head(hits)

\* the tree below n as a value: what a serialisation of the element holds
RECURSIVE ToTree(_, _)
ToTree(d, n) ==
    [tag |-> d[n].tag, author |-> d[n].author, wid |-> d[n].wid,
     val |-> d[n].val, text |-> d[n].text,
     kids |-> [i \in 1..Len(d[n].kids) |-> ToTree(d, d[n].kids[i])]]

\* the nodes that are part of the document (reachable from the body)
InTree(d) == {Iter(d, Body)[i] : i \in 1..Len(Iter(d, Body))}

Markers(d) == {n \in InTree(d) : d[n].tag \in MarkerTags}

-----------------------------------------------------------------------------
(* track_changes.py: accept_changes and reject_changes.                    *)
(* A resolver state st is [d |-> tree, n |-> changes counted so far].      *)

\* "if author_filter and author != author_filter: continue"
Skipped(d, m, f) == f # "" /\ d[m].author # f

RECURSIVE MoveChildrenToEnd(_, _, _, _, _, _)
\* a child loop that appends the children to the parent: dst.append(child)
MoveChildrenToEnd(d, src, dst, idx, children, i) ==
    IF children = <<>> THEN d
    ELSE MoveChildrenToEnd(
            AppendChild(RemoveChild(d, src, Head(children)), dst, Head(children)),
            src, dst, idx, Tail(children), i + 1)

RECURSIVE MoveChildren(_, _, _, _, _, _)
\* for i, child in enumerate(children): src.remove(child); dst.insert(idx + i, child)
MoveChildren(d, src, dst, idx, children, i) ==
    IF children = <<>> THEN d
    ELSE MoveChildren(
            InsertChild(RemoveChild(d, src, Head(children)), dst, idx + i, Head(children)),
            src, dst, idx, Tail(children), i + 1)

\* one iteration of the insertion loop of accept_changes: unwrap
AcceptIns(st, ins, f) ==
    IF Skipped(st.d, ins, f) THEN st
    ELSE IF st.d[ins].parent = NoNode THEN st
    ELSE LET parent == st.d[ins].parent
             idx == IndexOf(st.d[parent].kids, ins)
             children == st.d[ins].kids
             moved == MoveChildren(st.d, ins, parent, idx, children, 0)
         IN [d |-> RemoveChild(moved, parent, ins), n |-> st.n + 1]

\* a removal that counts the marker and leaves it in the tree
DropElementKept(st, m, f) ==
    IF Skipped(st.d, m, f) THEN st
    ELSE IF st.d[m].parent = NoNode THEN st
    ELSE [d |-> st.d, n |-> st.n + 1]

\* one iteration of a loop that drops the element: accepted deletions and
\* change records, rejected insertions
DropElement(st, m, f) ==
    IF Skipped(st.d, m, f) THEN st
    ELSE IF st.d[m].parent = NoNode THEN st
    ELSE [d |-> RemoveChild(st.d, st.d[m].parent, m), n |-> st.n + 1]

\* one iteration of the paragraph-mark loop (w:del inside w:rPr inside w:pPr),
\* the same in accept_changes and reject_changes
ParaMark(st, ppr, f) ==
    LET rpr == Find(st.d, ppr, "rPr")
        del_elem == IF rpr = NoNode THEN NoNode ELSE Find(st.d, rpr, "del")
    IN IF rpr = NoNode \/ del_elem = NoNode THEN st
       ELSE IF Skipped(st.d, del_elem, f) THEN st
       ELSE LET d1 == RemoveChild(st.d, rpr, del_elem)
                d2 == IF Len(d1[rpr].kids) = 0 THEN RemoveChild(d1, ppr, rpr) ELSE d1
            IN [d |-> d2, n |-> st.n + 1]

\* for del_text in child.iter(delText): del_text.tag = t
ConvertDelText(d, child) ==
    LET sub == IterTag(d, child, "delText")
        hit == {sub[i] : i \in 1..Len(sub)}
    IN [k \in 1..Len(d) |-> IF k \in hit THEN [d[k] EXCEPT !.tag = "t"] ELSE d[k]]

\* a child loop that leaves the children where they are
LeaveChildren(d, src, dst, idx, children, i) == d

RECURSIVE RestoreChildren(_, _, _, _, _, _)
\* the child loop of the deletion loop of reject_changes
RestoreChildren(d, src, dst, idx, children, i) ==
    IF children = <<>> THEN d
    ELSE LET child == Head(children)
             d1 == ConvertDelText(d, child)
         IN RestoreChildren(
                InsertChild(RemoveChild(d1, src, child), dst, idx + i, child),
                src, dst, idx, Tail(children), i + 1)

\* one iteration of the deletion loop of reject_changes: unwrap as live text
RejectDel(st, dele, f) ==
    IF Skipped(st.d, dele, f) THEN st
    ELSE IF st.d[dele].parent = NoNode THEN st
    ELSE LET parent == st.d[dele].parent
             idx == IndexOf(st.d[parent].kids, dele)
             children == st.d[dele].kids
             moved == RestoreChildren(st.d, dele, parent, idx, children, 0)
         IN [d |-> RemoveChild(moved, parent, dele), n |-> st.n + 1]

RECURSIVE RemoveAll(_, _, _)
\* for child in list(parent): parent.remove(child)
RemoveAll(d, p, children) ==
    IF children = <<>> THEN d
    ELSE RemoveAll(RemoveChild(d, p, Head(children)), p, Tail(children))

RECURSIVE AppendAll(_, _, _, _)
\* for child in old_children: rpc.remove(child); parent.append(child)
AppendAll(d, src, dst, children) ==
    IF children = <<>> THEN d
    ELSE AppendAll(AppendChild(RemoveChild(d, src, Head(children)), dst, Head(children)),
                   src, dst, Tail(children))

\* one iteration of the rPrChange / pPrChange loop of reject_changes
RejectFormat(st, rpc, f) ==
    IF Skipped(st.d, rpc, f) THEN st
    ELSE IF st.d[rpc].parent = NoNode THEN st
    ELSE LET parent == st.d[rpc].parent
             old_children == st.d[rpc].kids
             cleared == RemoveAll(st.d, parent, st.d[parent].kids)
         IN [d |-> AppendAll(cleared, rpc, parent, old_children), n |-> st.n + 1]

RECURSIVE AcceptInsLoop(_, _, _)
AcceptInsLoop(st, list, f) ==
    IF list = <<>> THEN st
    ELSE AcceptInsLoop(AcceptIns(st, Head(list), f), Tail(list), f)

RECURSIVE DropLoop(_, _, _)
DropLoop(st, list, f) ==
    IF list = <<>> THEN st
    ELSE DropLoop(DropElement(st, Head(list), f), Tail(list), f)

RECURSIVE ParaMarkLoop(_, _, _)
ParaMarkLoop(st, list, f) ==
    IF list = <<>> THEN st
    ELSE ParaMarkLoop(ParaMark(st, Head(list), f), Tail(list), f)

RECURSIVE RejectDelLoop(_, _, _)
RejectDelLoop(st, list, f) ==
    IF list = <<>> THEN st
    ELSE RejectDelLoop(RejectDel(st, Head(list), f), Tail(list), f)

RECURSIVE RejectFormatLoop(_, _, _)
RejectFormatLoop(st, list, f) ==
    IF list = <<>> THEN st
    ELSE RejectFormatLoop(RejectFormat(st, Head(list), f), Tail(list), f)

\* accept_changes before its last loop: the tree after the pPrChange loop is
\* written and the sectPrChange loop runs on the tree in memory afterwards.
accept_changes_early(d, f) ==
    LET s1 == AcceptInsLoop([d |-> d, n |-> 0], IterTag(d, Body, "ins"), f)
        s2 == DropLoop(s1, IterTag(s1.d, Body, "del"), f)
        s3 == ParaMarkLoop(s2, IterTag(s2.d, Body, "pPr"), f)
        s4 == DropLoop(s3, IterTag(s3.d, Body, "rPrChange"), f)
        s5 == DropLoop(s4, IterTag(s4.d, Body, "pPrChange"), f)
        s6 == DropLoop(s5, IterTag(s5.d, Body, "sectPrChange"), f)
    IN [d |-> s6.d, n |-> s6.n, saved |-> <<s5.d>>]

\* accept_changes(doc, output_path, author_filter): the tree that is saved and
\* the count that is printed.  Each loop takes its snapshot list(body.iter(tag))
\* from the tree the previous loops left.
accept_changes(d, f) ==
    LET s1 == AcceptInsLoop([d |-> d, n |-> 0], IterTag(d, Body, "ins"), f)
        s2 == DropLoop(s1, IterTag(s1.d, Body, "del"), f)
        s3 == ParaMarkLoop(s2, IterTag(s2.d, Body, "pPr"), f)
        s4 == DropLoop(s3, IterTag(s3.d, Body, "rPrChange"), f)
        s5 == DropLoop(s4, IterTag(s4.d, Body, "pPrChange"), f)
        s6 == DropLoop(s5, IterTag(s5.d, Body, "sectPrChange"), f)
    IN [d |-> s6.d, n |-> s6.n, saved |-> <<s6.d>>]

\* reject_changes(doc, output_path, author_filter)
reject_changes(d, f) ==
    LET s1 == DropLoop([d |-> d, n |-> 0], IterTag(d, Body, "ins"), f)
        s2 == RejectDelLoop(s1, IterTag(s1.d, Body, "del"), f)
        s3 == ParaMarkLoop(s2, IterTag(s2.d, Body, "pPr"), f)
        s4 == RejectFormatLoop(s3, IterTag(s3.d, Body, "rPrChange"), f)
        s5 == RejectFormatLoop(s4, IterTag(s4.d, Body, "pPrChange"), f)
    IN [d |-> s5.d, n |-> s5.n, saved |-> <<s5.d>>]

-----------------------------------------------------------------------------
(* Strings.  A text or an attribute value is a sequence of characters, so  *)
(* that searching, splitting, str() and int() are computed, not assumed.   *)

Digits == <<"0", "1", "2", "3", "4", "5", "6", "7", "8", "9">>

RECURSIVE Str(_)
\* str(n) of an integer: its decimal digits, after a minus sign when negative
Str(n) == IF n < 0 THEN <<"-">> \o Str(0 - n)
          ELSE IF n < 10 THEN <<Digits[n + 1]>>
          ELSE Str(n \div 10) \o <<Digits[(n % 10) + 1]>>

Letters == <<"a", "b", "c", "d", "e", "f", "g", "h">>

-----------------------------------------------------------------------------
(* Documents under test for the resolver: a body built fragment by         *)
(* fragment in document order, following the WordprocessingML shapes the   *)
(* resolver's loops look for (w:ins / w:del around runs, w:rPrChange in a  *)
(* run's w:rPr, w:pPrChange and the paragraph-mark w:rPr in w:pPr,         *)
(* w:sectPrChange in the body's w:sectPr).  A change record holds its      *)
(* snapshot as one child properties element (CT_RPrChange holds a w:rPr).  *)

RECURSIVE RightSpine(_, _)
\* the open elements of a body written in document order
RightSpine(d, n) ==
    IF d[n].kids = <<>> THEN {n}
    ELSE {n} \cup RightSpine(d, d[n].kids[Len(d[n].kids)])

Containers(d) == {n \in RightSpine(d, Body) : d[n].tag \in {"p", "ins", "del"}}

\* w:rPr [ w:b, w:rPrChange(author) [ w:rPr [ w:i ] ] ] under run r
WithRPrChange(d, r, author, wid) ==
    LET d1 == SubElement(d, r, "rPr", "", <<>>, <<>>)
        rpr == Last(d1)
        d2 == SubElement(d1, rpr, "b", "", <<>>, <<>>)
        d3 == SubElement(d2, rpr, "rPrChange", author, wid, <<>>)
        d4 == SubElement(d3, Last(d3), "rPr", "", <<>>, <<>>)
    IN SubElement(d4, Last(d4), "i", "", <<>>, <<>>)

\* w:r [ w:rPr?, w:t | w:delText ] as last child of container c
RunFragment(d, c, kind, fmt, k) ==
    LET d1 == SubElement(d, c, "r", "", <<>>, <<>>)
        r == Last(d1)
        d2 == IF fmt = "" THEN d1 ELSE WithRPrChange(d1, r, fmt, Str(k))
    IN SubElement(d2, r, kind, "", <<>>, <<Letters[k]>>)

\* w:pPr [ w:jc, w:rPr [ w:del(mark) ]?, w:pPrChange(chg) [ w:pPr [ w:pStyle ] ]? ]
PPrFragment(d, p, mark, chg, k) ==
    LET d1 == SubElement(d, p, "pPr", "", <<>>, <<>>)
        ppr == Last(d1)
        d2 == SubElement(d1, ppr, "jc", "", <<>>, <<>>)
        d3 == IF mark = "" THEN d2
              ELSE LET e1 == SubElement(d2, ppr, "rPr", "", <<>>, <<>>)
                   IN SubElement(e1, Last(e1), "del", mark, Str(k), <<>>)
        d4 == IF chg = "" THEN d3
              ELSE LET e1 == SubElement(d3, ppr, "pPrChange", chg, Str(k) \o <<"0">>, <<>>)
                       e2 == SubElement(e1, Last(e1), "pPr", "", <<>>, <<>>)
                   IN SubElement(e2, Last(e2), "pStyle", "", <<>>, <<>>)
    IN d4

\* w:sectPr [ w:pgSz, w:sectPrChange(chg) [ w:sectPr [ w:pgMar ] ]? ]
SectPrFragment(d, chg, wid) ==
    LET d1 == SubElement(d, Body, "sectPr", "", <<>>, <<>>)
        sect == Last(d1)
        d2 == SubElement(d1, sect, "pgSz", "", <<>>, <<>>)
    IN IF chg = "" THEN d2
       ELSE LET e1 == SubElement(d2, sect, "sectPrChange", chg, wid, <<>>)
                e2 == SubElement(e1, Last(e1), "sectPr", "", <<>>, <<>>)
            IN SubElement(e2, Last(e2), "pgMar", "", <<>>, <<>>)

EmptyBody == <<Element("body", "", <<>>, <<>>, NoNode)>>

NoCall == [action |-> "none", filter |-> "", count |-> 0, before |-> <<>>, after |-> <<>>,
           saved |-> <<>>]

NoCmd == [op |-> "none", status |-> "", id |-> <<>>, before |-> <<>>,
          arg |-> <<>>, doc |-> <<>>, part |-> FALSE, saved |-> <<>>]

\* no merge.py or format.py command is part of the session
NoTools ==
    /\ files = <<>>
    /\ headings = <<>>
    /\ styles = {}

\* a session that runs no comments command
NoComments ==
    /\ commentsPart = FALSE
    /\ comments = <<>>
    /\ cmd = NoCmd
    /\ allocated = <<>>
    /\ ncmds = 0

InitResolve ==
    /\ NoTools
    /\ phase = "open"
    /\ doc = SubElement(EmptyBody, Body, "p", "", <<>>, <<>>)
    /\ nfrags = 0
    /\ first = NoCall
    /\ second = NoCall
    /\ revisedParas = <<>>
    /\ granularity = "paragraph"
    /\ diffs = <<>>
    /\ NoComments

CanAdd == phase = "open" /\ nfrags < MaxFrags

AddRun ==
    /\ CanAdd
    /\ \E c \in Containers(doc), kind \in {"t", "delText"}, fmt \in Filters :
          doc' = RunFragment(doc, c, kind, fmt, nfrags + 1)
    /\ nfrags' = nfrags + 1
    /\ UNCHANGED <<phase, first, second, compareVars, commentVars, toolVars>>

AddMarker ==
    /\ CanAdd
    /\ \E c \in Containers(doc), tag \in {"ins", "del"}, a \in Authors :
          doc' = SubElement(doc, c, tag, a, Str(nfrags + 1), <<>>)
    /\ nfrags' = nfrags + 1
    /\ UNCHANGED <<phase, first, second, compareVars, commentVars, toolVars>>

AddPara ==
    /\ CanAdd
    /\ Find(doc, Body, "sectPr") = NoNode
    /\ doc' = SubElement(doc, Body, "p", "", <<>>, <<>>)
    /\ nfrags' = nfrags + 1
    /\ UNCHANGED <<phase, first, second, compareVars, commentVars, toolVars>>

AddPPr ==
    /\ CanAdd
    /\ \E p \in Containers(doc), mark \in Filters, chg \in Filters :
          /\ doc[p].tag = "p"
          /\ doc[p].kids = <<>>
          /\ mark # "" \/ chg # ""
          /\ doc' = PPrFragment(doc, p, mark, chg, nfrags + 1)
    /\ nfrags' = nfrags + 1
    /\ UNCHANGED <<phase, first, second, compareVars, commentVars, toolVars>>

AddSectPr ==
    /\ CanAdd
    /\ Find(doc, Body, "sectPr") = NoNode
    /\ \E chg \in Filters : doc' = SectPrFragment(doc, chg, Str(nfrags + 1))
    /\ nfrags' = nfrags + 1
    /\ UNCHANGED <<phase, first, second, compareVars, commentVars, toolVars>>

Call(action, f, res) ==
    [action |-> action, filter |-> f, count |-> res.n, before |-> doc, after |-> res.d,
     saved |-> res.saved]

\* track_changes.py accept <file> [--author f]
Accept ==
    /\ phase \in {"open", "once"}
    /\ \E f \in Filters :
          LET res == accept_changes(doc, f)
          IN /\ doc' = res.d
             /\ IF phase = "open"
                   THEN first' = Call("accept", f, res) /\ UNCHANGED second
                   ELSE second' = Call("accept", f, res) /\ UNCHANGED first
    /\ phase' = IF phase = "open" THEN "once" ELSE "twice"
    /\ UNCHANGED <<nfrags, compareVars, commentVars, toolVars>>

\* track_changes.py reject <file> [--author f]
Reject ==
    /\ phase \in {"open", "once"}
    /\ \E f \in Filters :
          LET res == reject_changes(doc, f)
          IN /\ doc' = res.d
             /\ IF phase = "open"
                   THEN first' = Call("reject", f, res) /\ UNCHANGED second
                   ELSE second' = Call("reject", f, res) /\ UNCHANGED first
    /\ phase' = IF phase = "open" THEN "once" ELSE "twice"
    /\ UNCHANGED <<nfrags, compareVars, commentVars, toolVars>>

NextResolve ==
    \/ AddRun
    \/ AddMarker
    \/ AddPara
    \/ AddPPr
    \/ AddSectPr
    \/ Accept
    \/ Reject

SpecResolve == InitResolve /\ [][NextResolve]_vars

-----------------------------------------------------------------------------
(* Properties of the resolver, checked under SpecResolve *)

\* the resolve calls made so far in the session
Calls == {c \in {first, second} : c.action \in {"accept", "reject"}}

\* the markers a call with filter f selects by author
Matching(d, f) == {m \in Markers(d) : f = "" \/ d[m].author = f}

\* the serialised children of node n
KidTrees(d, n) == [i \in 1..Len(d[n].kids) |-> ToTree(d, d[n].kids[i])]

PropTags == {"b", "i", "jc", "pStyle", "pgSz", "pgMar"}

\* the serialised formatting properties held directly by properties element n
PropTrees(d, n) ==
    LET props == SelectSeq(d[n].kids, LAMBDA k : d[k].tag \in PropTags)
    IN [i \in 1..Len(props) |-> ToTree(d, props[i])]

\* the previous-formatting properties stored in change record m: the
\* children of its snapshot properties element
SnapshotProps(d, m) ==
    IF d[m].kids = <<>> THEN <<>> ELSE KidTrees(d, d[m].kids[1])

\* C3: a resolve call with author filter X leaves every marker of another
\* author in the tree (nested in, or sharing a properties element with, a
\* marker of X or not), with the subtree it had.
C3_OtherAuthorsUntouched ==
    \A c \in Calls :
        c.filter # "" =>
            \A m \in Markers(c.before) :
                c.before[m].author # c.filter => m \in InTree(c.after)

\* C4: after accept_changes or reject_changes with no author filter no
\* marker of any of the five kinds remains in the tree.
C4_NoMarkerRemains ==
    \A c \in Calls : c.filter = "" => Markers(c.after) = {}

\* C5: a second call of the same action with the same filter counts zero
\* changes and leaves the tree unchanged; any call whose filter matches no
\* marker counts zero and leaves the tree unchanged.
C5_Idempotent ==
    /\ (phase = "twice" /\ second.action = first.action /\ second.filter = first.filter)
          => /\ second.count = 0
             /\ ToTree(second.after, Body) = ToTree(second.before, Body)
    /\ \A c \in Calls :
          Matching(c.before, c.filter) = {}
              => /\ c.count = 0
                 /\ ToTree(c.after, Body) = ToTree(c.before, Body)

\* C5 witness: a repeated call after a first call that resolved two or more
\* markers, nested ones included
C5_Witness ==
    /\ phase = "twice"
    /\ second.action = first.action
    /\ second.filter = first.filter
    /\ first.count >= 2
    /\ \E m \in Markers(first.before) :
          first.before[first.before[m].parent].tag \in MarkerTags

\* C6: accept with filter X, then accept with no filter: no marker remains,
\* the first count holds only markers of X, and the second count is the
\* number of markers the tree held after the first call.
C6_CountsRemaining ==
    (/\ phase = "twice"
     /\ first.action = "accept" /\ first.filter \in Authors
     /\ second.action = "accept" /\ second.filter = "")
        => /\ Markers(second.after) = {}
           /\ first.count <= Cardinality(Matching(first.before, first.filter))
           /\ second.count = Cardinality(Markers(second.before))

\* C7: rejecting an rPrChange / pPrChange leaves the enclosing properties
\* element holding exactly the properties of the record's snapshot and no
\* change record; accepting it removes the record and keeps every current
\* property.
C7_FormatResolution ==
    \A c \in Calls :
        \A m \in Matching(c.before, c.filter) :
            LET q == c.before[m].parent
            IN (c.before[m].tag \in {"rPrChange", "pPrChange"} /\ q \in InTree(c.after))
                  => IF c.action = "reject"
                        THEN KidTrees(c.after, q) = SnapshotProps(c.before, m)
                        ELSE /\ \A i \in 1..Len(c.after[q].kids) : c.after[q].kids[i] # m
                             /\ PropTrees(c.after, q) = PropTrees(c.before, q)

-----------------------------------------------------------------------------
(* compare.py: the diff engine.  difflib.SequenceMatcher(None, a, b) with   *)
(* no junk; positions are 0-based and ranges half-open, as in Python.       *)

\* bound: paragraphs in the original and in the revised document
MaxParas == 2

RECURSIVE MatchLen(_, _, _, _, _, _)
\* length of the longest common run of a[i:ahi] and b[j:bhi] starting at (i, j)
MatchLen(a, b, i, j, ahi, bhi) ==
    IF i < ahi /\ j < bhi /\ a[i + 1] = b[j + 1]
        THEN 1 + MatchLen(a, b, i + 1, j + 1, ahi, bhi)
        ELSE 0

SetMax(S) == CHOOSE x \in S : \A y \in S : y <= x
SetMin(S) == CHOOSE x \in S : \A y \in S : x <= y

\* SequenceMatcher.find_longest_match(alo, ahi, blo, bhi): the longest
\* matching block, the one starting earliest in a, and of those the one
\* starting earliest in b; (alo, blo, 0) when nothing matches
find_longest_match(a, b, alo, ahi, blo, bhi) ==
    LET cand == (alo..(ahi - 1)) \X (blo..(bhi - 1))
        size(c) == MatchLen(a, b, c[1], c[2], ahi, bhi)
        best == IF cand = {} THEN 0 ELSE SetMax({size(c) : c \in cand})
    IN IF best = 0 THEN [i |-> alo, j |-> blo, size |-> 0]
       ELSE LET i == SetMin({c[1] : c \in {x \in cand : size(x) = best}})
                j == SetMin({c[2] : c \in {x \in cand : x[1] = i /\ size(x) = best}})
            IN [i |-> i, j |-> j, size |-> best]

Opcode(tag, i1, i2, j1, j2) == [tag |-> tag, i1 |-> i1, i2 |-> i2, j1 |-> j1, j2 |-> j2]

RECURSIVE get_opcodes_range(_, _, _, _, _, _)
\* SequenceMatcher.get_opcodes() restricted to a[alo:ahi], b[blo:bhi]: the
\* matching blocks are found by splitting at the longest match and recursing
\* to its left and right (get_matching_blocks); a stretch between two
\* blocks is one replace / delete / insert opcode
get_opcodes_range(a, b, alo, ahi, blo, bhi) ==
    LET m == find_longest_match(a, b, alo, ahi, blo, bhi)
    IN IF m.size = 0
          THEN IF alo < ahi /\ blo < bhi THEN <<Opcode("replace", alo, ahi, blo, bhi)>>
               ELSE IF alo < ahi THEN <<Opcode("delete", alo, ahi, blo, bhi)>>
               ELSE IF blo < bhi THEN <<Opcode("insert", alo, ahi, blo, bhi)>>
               ELSE <<>>
          ELSE get_opcodes_range(a, b, alo, m.i, blo, m.j)
               \o <<Opcode("equal", m.i, m.i + m.size, m.j, m.j + m.size)>>
               \o get_opcodes_range(a, b, m.i + m.size, ahi, m.j + m.size, bhi)

get_opcodes(a, b) == get_opcodes_range(a, b, 0, Len(a), 0, Len(b))

\* a[i1:i2] of a Python list
Slice(a, i1, i2) == SubSeq(a, i1 + 1, i2)

RECURSIVE Split(_)
\* str.split(): the maximal runs of non-blank characters
Split(text) ==
    IF text = <<>> THEN <<>>
    ELSE IF Head(text) = " " THEN Split(Tail(text))
    ELSE LET blanks == {i \in 1..Len(text) : text[i] = " "}
             stop == IF blanks = {} THEN Len(text) + 1 ELSE SetMin(blanks)
         IN <<SubSeq(text, 1, stop - 1)>> \o Split(SubSeq(text, stop, Len(text)))

RECURSIVE Join(_)
\* " ".join(words)
Join(words) ==
    IF words = <<>> THEN <<>>
    ELSE IF Len(words) = 1 THEN words[1]
    ELSE words[1] \o <<" ">> \o Join(Tail(words))

WordDiff(type, text) == [type |-> type, text |-> text]

RECURSIVE WordOpsInsertedFirst(_, _, _)
\* the opcode loop with the two ops of a replace range in the other order
WordOpsInsertedFirst(ops, orig_words, rev_words) ==
    IF ops = <<>> THEN <<>>
    ELSE LET o == Head(ops)
             del == WordDiff("deleted", Join(Slice(orig_words, o.i1, o.i2)))
             ins == WordDiff("inserted", Join(Slice(rev_words, o.j1, o.j2)))
             out == CASE o.tag = "equal" ->
                            <<WordDiff("equal", Join(Slice(orig_words, o.i1, o.i2)))>>
                      [] o.tag = "replace" -> <<ins, del>>
                      [] o.tag = "delete" -> <<del>>
                      [] o.tag = "insert" -> <<ins>>
         IN out \o WordOpsInsertedFirst(Tail(ops), orig_words, rev_words)

RECURSIVE WordOps(_, _, _)
\* the opcode loop of compare_words
WordOps(ops, orig_words, rev_words) ==
    IF ops = <<>> THEN <<>>
    ELSE LET o == Head(ops)
             del == WordDiff("deleted", Join(Slice(orig_words, o.i1, o.i2)))
             ins == WordDiff("inserted", Join(Slice(rev_words, o.j1, o.j2)))
             out == CASE o.tag = "equal" ->
                            <<WordDiff("equal", Join(Slice(orig_words, o.i1, o.i2)))>>
                      [] o.tag = "replace" -> <<del, ins>>
                      [] o.tag = "delete" -> <<del>>
                      [] o.tag = "insert" -> <<ins>>
         IN out \o WordOps(Tail(ops), orig_words, rev_words)

\* compare_words(original, revised)
compare_words(original, revised) ==
    LET orig_words == Split(original)
        rev_words == Split(revised)
    IN WordOps(get_opcodes(orig_words, rev_words), orig_words, rev_words)

\* a DiffOperation; the keys a kind does not carry are empty
ParaDiff(type, text, style) ==
    [type |-> type, text |-> text, style |-> style,
     original_text |-> <<>>, revised_text |-> <<>>, word_diffs |-> <<>>]

Modified(original_text, revised_text, style) ==
    [type |-> "modified", text |-> <<>>, style |-> style,
     original_text |-> original_text, revised_text |-> revised_text,
     word_diffs |-> compare_words(original_text, revised_text)]

\* one diff per paragraph paras[k], k in range(lo, hi)
RECURSIVE EachPara(_, _, _, _)
EachPara(type, paras, lo, hi) ==
    IF lo >= hi THEN <<>>
    ELSE <<ParaDiff(type, paras[lo + 1].text, paras[lo + 1].style)>>
         \o EachPara(type, paras, lo + 1, hi)

RECURSIVE PairRow(_, _, _, _, _)
\* for ri in range(j1, j2): a modified diff of (original oi, revised ri)
PairRow(orig, rev, oi, j1, j2) ==
    IF j1 >= j2 THEN <<>>
    ELSE <<Modified(orig[oi + 1].text, rev[j1 + 1].text, orig[oi + 1].style)>>
         \o PairRow(orig, rev, oi, j1 + 1, j2)

RECURSIVE PairAllByColumn(_, _, _, _, _, _)
\* the loops nested the other way: for ri in range(j1, j2): for oi in range(i1, i2)
PairAllByColumn(orig, rev, i1, i2, j1, j2) ==
    IF j1 >= j2 THEN <<>>
    ELSE [k \in 1..(IF i2 > i1 THEN i2 - i1 ELSE 0) |->
             Modified(orig[i1 + k].text, rev[j1 + 1].text, orig[i1 + k].style)]
         \o PairAllByColumn(orig, rev, i1, i2, j1 + 1, j2)

RECURSIVE PairAll(_, _, _, _, _, _)
\* for oi in range(i1, i2): for ri in range(j1, j2)
PairAll(orig, rev, i1, i2, j1, j2) ==
    IF i1 >= i2 THEN <<>>
    ELSE PairRow(orig, rev, i1, j1, j2) \o PairAll(orig, rev, i1 + 1, i2, j1, j2)

RECURSIVE ParaOps(_, _, _, _)
\* the opcode loop of compare_paragraphs
ParaOps(ops, orig, rev, gran) ==
    IF ops = <<>> THEN <<>>
    ELSE LET o == Head(ops)
             out == CASE o.tag = "equal" -> EachPara("equal", orig, o.i1, o.i2)
                      [] o.tag = "replace" ->
                            IF gran = "word"
                               THEN PairAll(orig, rev, o.i1, o.i2, o.j1, o.j2)
                               ELSE EachPara("deleted", orig, o.i1, o.i2)
                                    \o EachPara("inserted", rev, o.j1, o.j2)
                      [] o.tag = "delete" -> EachPara("deleted", orig, o.i1, o.i2)
                      [] o.tag = "insert" -> EachPara("inserted", rev, o.j1, o.j2)
         IN out \o ParaOps(Tail(ops), orig, rev, gran)

Texts(paras) == [k \in 1..Len(paras) |-> paras[k].text]

\* compare_paragraphs(original_paras, revised_paras, granularity)
compare_paragraphs(original_paras, revised_paras, gran) ==
    ParaOps(get_opcodes(Texts(original_paras), Texts(revised_paras)),
            original_paras, revised_paras, gran)

-----------------------------------------------------------------------------
(* compare.py: extract_paragraphs and create_redline_docx *)

\* bound: largest w:id a marker of the original document carries
MaxBaseId == 2

Normal == <<"N", "o", "r", "m", "a", "l">>
Heading1 == <<"H", "e", "a", "d", "i", "n", "g", " ", "1">>
StyleNames == {Normal, Heading1}

\* style.replace(' ', ''): the style id written to w:pStyle
StripSpaces(style) == SelectSeq(style, LAMBDA c : c # " ")

RECURSIVE Concat(_)
\* "".join(parts)
Concat(parts) == IF parts = <<>> THEN <<>> ELSE Head(parts) \o Concat(Tail(parts))

\* the text of the w:t children of run r
RunText(d, r) ==
    LET ts == SelectSeq(d[r].kids, LAMBDA k : d[k].tag = "t")
    IN Concat([i \in 1..Len(ts) |-> d[ts[i]].text])

\* para.text: the text of the runs that are direct children of the paragraph
ParaText(d, p) ==
    LET runs == SelectSeq(d[p].kids, LAMBDA k : d[k].tag = "r")
    IN Concat([i \in 1..Len(runs) |-> RunText(d, runs[i])])

\* para.style.name: the style the paragraph's w:pStyle names, else Normal
ParaStyle(d, p) ==
    LET ppr == Find(d, p, "pPr")
        pstyle == IF ppr = NoNode THEN NoNode ELSE Find(d, ppr, "pStyle")
    IN IF pstyle = NoNode THEN Normal
       ELSE CHOOSE s \in StyleNames : StripSpaces(s) = d[pstyle].val

\* extract_paragraphs(doc): doc.paragraphs are the w:p children of the body
extract_paragraphs(d) ==
    LET ps == SelectSeq(d[Body].kids, LAMBDA k : d[k].tag = "p")
    IN [i \in 1..Len(ps) |-> [text |-> ParaText(d, ps[i]), style |-> ParaStyle(d, ps[i])]]

\* p = SubElement(body, w:p), with w:pPr/w:pStyle unless the style is Normal
StyledPara(d, style) ==
    LET d1 == SubElement(d, Body, "p", "", <<>>, <<>>)
        p == Last(d1)
    IN IF style # <<>> /\ style # Normal
          THEN LET d2 == SubElement(d1, p, "pPr", "", <<>>, <<>>)
                   d3 == SubElement(d2, Last(d2), "pStyle", "", <<>>, <<>>)
               IN [d |-> SetVal(d3, Last(d3), StripSpaces(style)), p |-> p]
          ELSE [d |-> d1, p |-> p]

\* r = SubElement(parent, w:r); SubElement(r, w:t | w:delText).text = text
TextRun(d, parent, texttag, text) ==
    LET d1 == SubElement(d, parent, "r", "", <<>>, <<>>)
    IN SubElement(d1, Last(d1), texttag, "", <<>>, text)

CompareAuthor == "Document Compare"

\* a w:ins / w:del marker with id str(change_id) around one run
MarkedRun(d, p, tag, change_id, texttag, text) ==
    LET d1 == SubElement(d, p, tag, CompareAuthor, Str(change_id), <<>>)
    IN TextRun(d1, Last(d1), texttag, text)

\* one iteration of "for diff in diffs"; st is [d |-> tree, change_id |-> counter]
RedlineDiff(st, diff) ==
    LET sp == StyledPara(st.d, diff.style)
    IN CASE diff.type = "equal" ->
              [d |-> TextRun(sp.d, sp.p, "t", diff.text), change_id |-> st.change_id]
         [] diff.type = "inserted" ->
              [d |-> MarkedRun(sp.d, sp.p, "ins", st.change_id, "t", diff.text),
               change_id |-> st.change_id + 1]
         [] diff.type = "deleted" ->
              [d |-> MarkedRun(sp.d, sp.p, "del", st.change_id, "delText", diff.text),
               change_id |-> st.change_id + 1]
         [] diff.type = "modified" ->
              LET d1 == MarkedRun(sp.d, sp.p, "del", st.change_id, "delText",
                                  diff.original_text)
              IN [d |-> MarkedRun(d1, sp.p, "ins", st.change_id + 1, "t",
                                  diff.revised_text),
                  change_id |-> st.change_id + 2]

RECURSIVE RedlineLoop(_, _)
RedlineLoop(st, ds) ==
    IF ds = <<>> THEN st ELSE RedlineLoop(RedlineDiff(st, Head(ds)), Tail(ds))

RECURSIVE ClearBody(_, _)
\* for child in list(body): keep w:sectPr, remove everything else
ClearBody(d, children) ==
    IF children = <<>> THEN d
    ELSE IF d[Head(children)].tag = "sectPr" THEN ClearBody(d, Tail(children))
    ELSE ClearBody(RemoveChild(d, Body, Head(children)), Tail(children))

\* create_redline_docx(original_doc, diffs, output_path): the tree saved
create_redline_docx(d, ds) ==
    LET st == RedlineLoop([d |-> ClearBody(d, d[Body].kids), change_id |-> 0], ds)
    IN [d |-> st.d, change_id |-> st.change_id, saved |-> <<st.d>>]

-----------------------------------------------------------------------------
(* A compare session: compare.py original revised --format docx, then      *)
(* track_changes.py accept / reject on the redline it wrote.               *)

ParaPool ==
    { [text |-> <<"a", " ", "b">>, style |-> Normal],
      [text |-> <<"a", " ", "c">>, style |-> Heading1],
      [text |-> <<"d">>, style |-> Normal] }

ParaSeqs == UNION {[1..k -> ParaPool] : k \in 0..MaxParas}

\* the body-level section properties of the original document: absent,
\* plain, or carrying a tracked section change with some w:id
SectVariants ==
    {[kind |-> "none", id |-> 0], [kind |-> "plain", id |-> 0]}
    \cup {[kind |-> "changed", id |-> i] : i \in 0..MaxBaseId}

RECURSIVE WriteParas(_, _)
WriteParas(d, paras) ==
    IF paras = <<>> THEN d
    ELSE LET sp == StyledPara(d, Head(paras).style)
         IN WriteParas(TextRun(sp.d, sp.p, "t", Head(paras).text), Tail(paras))

\* the original document as Word wrote it
OriginalDoc(paras, sv) ==
    LET d1 == WriteParas(EmptyBody, paras)
    IN IF sv.kind = "none" THEN d1
       ELSE SectPrFragment(d1, IF sv.kind = "changed" THEN "X" ELSE "", Str(sv.id))

InitRedline ==
    /\ NoTools
    /\ phase = "start"
    /\ \E a \in ParaSeqs, sv \in SectVariants : doc = OriginalDoc(a, sv)
    /\ revisedParas \in ParaSeqs
    /\ granularity \in {"paragraph", "word"}
    /\ diffs = <<>>
    /\ nfrags = 0
    /\ first = NoCall
    /\ second = NoCall
    /\ NoComments

\* main(): extract_paragraphs of both documents, compare_paragraphs
Compare ==
    /\ phase = "start"
    /\ diffs' = compare_paragraphs(extract_paragraphs(doc), revisedParas, granularity)
    /\ phase' = "diffed"
    /\ UNCHANGED <<doc, nfrags, first, second, revisedParas, granularity, commentVars, toolVars>>

\* main(): --format docx, create_redline_docx writes the redline
CreateRedline ==
    /\ phase = "diffed"
    /\ LET res == create_redline_docx(doc, diffs)
       IN /\ doc' = res.d
          /\ first' = [action |-> "redline", filter |-> "", count |-> res.change_id,
                       before |-> doc, after |-> res.d, saved |-> res.saved]
    /\ phase' = "once"
    /\ UNCHANGED <<nfrags, second, compareVars, commentVars, toolVars>>

NextRedline ==
    \/ Compare
    \/ CreateRedline
    \/ Accept
    \/ Reject

SpecRedline == InitRedline /\ [][NextRedline]_vars

-----------------------------------------------------------------------------
(* Properties of the compare session, checked under SpecRedline *)

\* the redline has been written and then resolved with no author filter
Resolved(action) ==
    /\ phase = "twice"
    /\ first.action = "redline"
    /\ second.action = action
    /\ second.filter = ""

\* C1: accepting every change of the redline of diff(A, B) yields a document
\* whose paragraph texts are those of B, for both granularities.
C1_AcceptRoundTrip ==
    Resolved("accept")
        => Texts(extract_paragraphs(second.after)) = Texts(revisedParas)

\* C2: rejecting every change of the redline of diff(A, B) yields a document
\* whose paragraph texts are those of A, no delText being left.
C2_RejectRoundTrip ==
    Resolved("reject")
        => /\ Texts(extract_paragraphs(second.after))
                = Texts(extract_paragraphs(first.before))
           /\ IterTag(second.after, Body, "delText") = <<>>

\* C8: in the document create_redline_docx writes, the ids of all revision
\* markers of the body are pairwise distinct, the markers kept from the
\* original document included.
C8_UniqueMarkerIds ==
    first.action = "redline"
        => \A m, n \in Markers(first.after) :
              m # n => first.after[m].wid # first.after[n].wid

-----------------------------------------------------------------------------
(* comments.py: add_comment and remove_comments *)

\* bound: comments commands run in one session
MaxCmds == 3

\* int(s) succeeds: an optional sign followed by decimal digits
IsInt(s) ==
    LET body == IF s # <<>> /\ Head(s) \in {"-", "+"} THEN Tail(s) ELSE s
    IN /\ body # <<>>
       /\ \A i \in 1..Len(body) : \E k \in 1..10 : Digits[k] = body[i]

DigitVal(c) == (CHOOSE k \in 1..10 : Digits[k] = c) - 1

RECURSIVE NatVal(_)
NatVal(ds) == IF ds = <<>> THEN 0
              ELSE 10 * NatVal(SubSeq(ds, 1, Len(ds) - 1)) + DigitVal(ds[Len(ds)])

\* int(s) for a string int() accepts
ToInt(s) == IF Head(s) = "-" THEN 0 - NatVal(Tail(s))
          ELSE IF Head(s) = "+" THEN NatVal(Tail(s))
          ELSE NatVal(s)

RECURSIVE NextIdLoopStrict(_, _)
\* the loop with "cid > next_id" for its test
NextIdLoopStrict(next_id, existing) ==
    IF existing = <<>> THEN next_id
    ELSE LET id == Head(existing).id
         IN IF IsInt(id) /\ ToInt(id) > next_id
               THEN NextIdLoopStrict(ToInt(id) + 1, Tail(existing))
               ELSE NextIdLoopStrict(next_id, Tail(existing))

RECURSIVE NextIdLoop(_, _)
\* for c in existing_comments: cid = int(c.id); if cid >= next_id: next_id = cid + 1
\* (a ValueError / TypeError of int() is passed over)
NextIdLoop(next_id, existing) ==
    IF existing = <<>> THEN next_id
    ELSE LET id == Head(existing).id
         IN IF IsInt(id) /\ ToInt(id) >= next_id
               THEN NextIdLoop(ToInt(id) + 1, Tail(existing))
               ELSE NextIdLoop(next_id, Tail(existing))

\* "Determine next comment ID": comment_id = str(next_id)
NextCommentId(existing) == Str(NextIdLoop(0, existing))

\* a test that is met when every character of needle occurs in hay
ContainsChars(hay, needle) ==
    \A i \in 1..Len(needle) : \E j \in 1..Len(hay) : hay[j] = needle[i]

\* needle in hay (Python substring test)
Contains(hay, needle) ==
    \E i \in 0..(Len(hay) - Len(needle)) : SubSeq(hay, i + 1, i + Len(needle)) = needle

\* etree.Element(tag): a new element with no parent
Detached(d, tag, wid) == Append(d, Element(tag, "", wid, <<>>, NoNode))

\* lxml moves an element that is inserted while it has a parent
Detach(d, n) == IF d[n].parent = NoNode THEN d ELSE RemoveChild(d, d[n].parent, n)

\* ref.addprevious(n)
AddPrevious(d, ref, n) ==
    LET d1 == Detach(d, n)
        p == d1[ref].parent
    IN InsertChild(d1, p, IndexOf(d1[p].kids, ref), n)

\* an insertion at the place of ref instead of after it
AddNextAtRef(d, ref, n) ==
    LET d1 == Detach(d, n)
        p == d1[ref].parent
    IN InsertChild(d1, p, IndexOf(d1[p].kids, ref), n)

\* ref.addnext(n)
AddNext(d, ref, n) ==
    LET d1 == Detach(d, n)
        p == d1[ref].parent
    IN InsertChild(d1, p, IndexOf(d1[p].kids, ref) + 1, n)

CommentReferenceStyle ==
    <<"C", "o", "m", "m", "e", "n", "t", "R", "e", "f", "e", "r", "e", "n", "c", "e">>

\* ref_run = w:r [ w:rPr [ w:rStyle ], w:commentReference(id) ], detached
NewRefRun(d, id) ==
    LET d1 == Detached(d, "r", <<>>)
        r == Last(d1)
        d2 == SubElement(d1, r, "rPr", "", <<>>, <<>>)
        d3 == SubElement(d2, Last(d2), "rStyle", "", <<>>, <<>>)
        d4 == SetVal(d3, Last(d3), CommentReferenceStyle)
    IN [d |-> SubElement(d4, r, "commentReference", "", id, <<>>), r |-> r]

RECURSIVE AnchorLoop(_, _, _, _, _)
\* "for run in runs": st is [d |-> tree, found_start |-> BOOLEAN]
AnchorLoop(st, runs, search_text, range_start, range_end) ==
    IF runs = <<>> THEN st
    ELSE LET run == Head(runs)
             run_text == RunText(st.d, run)
             hit == \/ Contains(run_text, search_text)
                    \/ (~st.found_start /\ run_text # <<>>
                         /\ Contains(search_text, run_text))
             d1 == IF hit /\ ~st.found_start
                      THEN AddPrevious(st.d, run, range_start) ELSE st.d
             d2 == IF hit THEN AddNext(d1, run, range_end) ELSE d1
         IN AnchorLoop([d |-> d2, found_start |-> st.found_start \/ hit],
                       Tail(runs), search_text, range_start, range_end)

\* "Add comment range markers to the document body" of add_comment
PlaceAnchors(d, para_elem, search_text, comment_id) ==
    LET d1 == Detached(d, "commentRangeStart", comment_id)
        range_start == Last(d1)
        d2 == Detached(d1, "commentRangeEnd", comment_id)
        range_end == Last(d2)
        rr == NewRefRun(d2, comment_id)
        runs == SelectSeq(d[para_elem].kids, LAMBDA k : d[k].tag = "r")
    IN IF runs # <<>>
          THEN LET st == AnchorLoop([d |-> rr.d, found_start |-> FALSE], runs,
                                    search_text, range_start, range_end)
                   d3 == IF st.found_start THEN st.d
                         ELSE AddNext(AddPrevious(st.d, runs[1], range_start),
                                      runs[Len(runs)], range_end)
               IN AddNext(d3, range_end, rr.r)
          ELSE AppendChild(AppendChild(AppendChild(rr.d, para_elem, range_start),
                                       para_elem, range_end), para_elem, rr.r)

CommentRecord(id, author, text) == [id |-> id, author |-> author, text |-> text]

\* doc.save(output_path): what the written file holds
Saved(d, table) == [d |-> d, comments |-> table]

\* add_comment(doc, search_text, comment_text, author, output_path):
\* ok = FALSE is the sys.exit(1) of a search text found in no paragraph
add_comment(d, table, search_text, comment_text, author) ==
    LET paras == SelectSeq(d[Body].kids, LAMBDA k : d[k].tag = "p")
        hits == SelectSeq(paras, LAMBDA k : Contains(ParaText(d, k), search_text))
    IN IF hits = <<>>
          THEN [ok |-> FALSE, d |-> d, comments |-> table, id |-> <<>>, saved |-> <<>>]
          ELSE LET comment_id == NextCommentId(table)
                   records == Append(table, CommentRecord(comment_id, author, comment_text))
                   body == PlaceAnchors(d, Head(hits), search_text, comment_id)
               IN [ok |-> TRUE, d |-> body, comments |-> records, id |-> comment_id,
                   saved |-> <<Saved(body, records)>>]

AnchorTags == {"commentRangeStart", "commentRangeEnd", "commentReference"}

RECURSIVE ElementsWithRuns(_, _, _)
\* a body scan that takes the run of every removed reference
ElementsWithRuns(d, elems, ids_to_remove) ==
    IF elems = <<>> THEN <<>>
    ELSE LET elem == Head(elems)
             parent == d[elem].parent
             inrun == /\ d[elem].tag = "commentReference"
                      /\ parent # NoNode
                      /\ d[parent].tag = "r"
             out == IF d[elem].tag \in AnchorTags /\ d[elem].wid \in ids_to_remove
                       THEN IF inrun THEN <<elem, parent>> ELSE <<elem>>
                       ELSE <<>>
         IN out \o ElementsWithRuns(d, Tail(elems), ids_to_remove)

RECURSIVE ElementsToRemove(_, _, _)
\* the body scan of remove_comments: the anchors carrying a removed id, and
\* after a commentReference its run when the run holds nothing else but w:rPr
ElementsToRemove(d, elems, ids_to_remove) ==
    IF elems = <<>> THEN <<>>
    ELSE LET elem == Head(elems)
             parent == d[elem].parent
             alone == /\ d[elem].tag = "commentReference"
                      /\ parent # NoNode
                      /\ d[parent].tag = "r"
                      /\ Len(SelectSeq(d[parent].kids, LAMBDA k : d[k].tag # "rPr")) = 1
             out == IF d[elem].tag \in AnchorTags /\ d[elem].wid \in ids_to_remove
                       THEN IF alone THEN <<elem, parent>> ELSE <<elem>>
                       ELSE <<>>
         IN out \o ElementsToRemove(d, Tail(elems), ids_to_remove)

RECURSIVE RemoveElements(_, _)
\* for elem in elements_to_remove: parent.remove(elem) unless it has no parent
RemoveElements(d, elems) ==
    IF elems = <<>> THEN d
    ELSE RemoveElements(Detach(d, Head(elems)), Tail(elems))

\* a removal that always takes the first element
DropFirst(table, index) == Tail(table)

\* comment_elems without the element at 0-based position index
DropAt(table, index) == SubSeq(table, 1, index) \o SubSeq(table, index + 2, Len(table))

\* remove_comments(doc, output_path, index): all = TRUE stands for index None.
\* ok = FALSE is the sys.exit(1) of an index out of range
remove_comments(d, part, table, all, index) ==
    IF ~part THEN [ok |-> TRUE, d |-> d, comments |-> table, saved |-> <<Saved(d, table)>>]
    ELSE IF ~all /\ (index < 0 \/ index >= Len(table))
        THEN [ok |-> FALSE, d |-> d, comments |-> table, saved |-> <<>>]
    ELSE LET ids_to_remove == IF all THEN {table[i].id : i \in 1..Len(table)}
                              ELSE {table[index + 1].id}
             left == IF all THEN <<>> ELSE DropAt(table, index)
             gone == ElementsToRemove(d, Iter(d, Body), ids_to_remove)
             body == RemoveElements(d, gone)
         IN [ok |-> TRUE, d |-> body, comments |-> left, saved |-> <<Saved(body, left)>>]

RECURSIVE CollectLoop(_, _, _, _, _)
\* "for elem in body.iter()" of find_commented_text
CollectLoop(d, elems, comment_id, collecting, text_parts) ==
    IF elems = <<>> THEN text_parts
    ELSE LET elem == Head(elems)
             tag == d[elem].tag
         IN IF tag = "commentRangeStart" /\ d[elem].wid = comment_id
               THEN CollectLoop(d, Tail(elems), comment_id, TRUE, text_parts)
            ELSE IF tag = "commentRangeEnd" /\ d[elem].wid = comment_id
               THEN text_parts
            ELSE IF collecting /\ tag = "t" /\ d[elem].text # <<>>
               THEN CollectLoop(d, Tail(elems), comment_id, collecting,
                                Append(text_parts, d[elem].text))
            ELSE CollectLoop(d, Tail(elems), comment_id, collecting, text_parts)

\* find_commented_text(doc, comment_id): the text between the comment's
\* start and end anchor
find_commented_text(d, comment_id) ==
    Concat(CollectLoop(d, Iter(d, Body), comment_id, FALSE, <<>>))

-----------------------------------------------------------------------------
(* A comments session: comments.py add / remove run on one document, each  *)
(* command loading what the previous one saved.                            *)

RECURSIVE WriteRuns(_, _, _)
WriteRuns(d, p, texts) ==
    IF texts = <<>> THEN d
    ELSE WriteRuns(TextRun(d, p, "t", Head(texts)), p, Tail(texts))

RECURSIVE WriteRunParas(_, _)
\* paragraphs given as the texts of their runs
WriteRunParas(d, paras) ==
    IF paras = <<>> THEN d
    ELSE LET d1 == SubElement(d, Body, "p", "", <<>>, <<>>)
         IN WriteRunParas(WriteRuns(d1, Last(d1), Head(paras)), Tail(paras))

\* the documents under test: one run "a b"; the same text split over two
\* runs; two paragraphs with a repeated text; a paragraph without runs
CommentDocs ==
    { << << <<"a", " ", "b">> >> >>,
      << << <<"a">>, <<" ", "b">> >> >>,
      << << <<"c">> >>, << <<"b">>, <<"a", " ", "b">> >> >>,
      << << <<"a", " ", "b">>, <<"a", " ", "b">> >> >>,
      << <<>> >> }

SearchTexts == {<<>>, <<"b">>, <<"a", " ", "b">>, <<"b", "a">>, <<"x">>}

\* the w:id values of the comments the document already holds when loaded
PreTables ==
    { <<>>,
      << <<"3">> >>,
      << <<"x">> >>,
      << <<"0", "1">> >>,
      << <<"-", "2">> >>,
      << <<"1">>, <<"3">> >>,
      << <<"3">>, <<"1">> >>,
      << <<"2">>, <<"2">> >> }

RECURSIVE Preload(_, _, _)
\* an existing comment on the whole first paragraph, its reference in a run
\* of its own (as Word writes it) or, when inline, inside the paragraph's
\* last text run
Preload(d, ids, inline) ==
    IF ids = <<>> THEN d
    ELSE LET p == Head(SelectSeq(d[Body].kids, LAMBDA k : d[k].tag = "p"))
             textruns == SelectSeq(d[p].kids, LAMBDA k : RunText(d, k) # <<>>)
             d1 == Detached(d, "commentRangeStart", Head(ids))
             d2 == InsertChild(d1, p, 0, Last(d1))
             d3 == SubElement(d2, p, "commentRangeEnd", "", Head(ids), <<>>)
             rr == NewRefRun(d3, Head(ids))
             d4 == IF inline /\ textruns # <<>>
                      THEN SubElement(d3, textruns[Len(textruns)], "commentReference",
                                      "", Head(ids), <<>>)
                      ELSE AppendChild(rr.d, p, rr.r)
         IN Preload(d4, Tail(ids), inline)

InitComments ==
    /\ NoTools
    /\ phase = "comments"
    /\ \E paras \in CommentDocs, pre \in PreTables, inline \in BOOLEAN :
          /\ doc = Preload(WriteRunParas(EmptyBody, paras), pre, inline)
          /\ comments = [i \in 1..Len(pre) |-> CommentRecord(pre[i], "Bob", <<"n">>)]
          /\ commentsPart \in (IF pre = <<>> THEN BOOLEAN ELSE {TRUE})
    /\ cmd = NoCmd
    /\ allocated = <<>>
    /\ ncmds = 0
    /\ nfrags = 0
    /\ first = NoCall
    /\ second = NoCall
    /\ revisedParas = <<>>
    /\ granularity = "paragraph"
    /\ diffs = <<>>

CanRun == phase = "comments" /\ ncmds < MaxCmds

Cmd(op, res, id, arg) ==
    [op |-> op, status |-> IF res.ok THEN "ok" ELSE "error", id |-> id, before |-> comments,
     arg |-> arg, doc |-> doc, part |-> commentsPart, saved |-> res.saved]

\* comments.py add <file> -t <search text> -c <comment> -a <author>
AddComment ==
    /\ CanRun
    /\ \E search_text \in SearchTexts :
          LET res == add_comment(doc, comments, search_text, <<"n">>, "Alice")
          IN /\ doc' = res.d
             /\ comments' = res.comments
             /\ commentsPart' = (commentsPart \/ res.ok)
             /\ allocated' = IF res.ok THEN Append(allocated, res.id) ELSE allocated
             /\ cmd' = Cmd("add", res, res.id, search_text)
    /\ ncmds' = ncmds + 1
    /\ UNCHANGED <<phase, nfrags, first, second, compareVars, toolVars>>

\* comments.py remove <file> --index i
RemoveComment ==
    /\ CanRun
    /\ \E index \in (0 - 1)..Len(comments) :
          LET res == remove_comments(doc, commentsPart, comments, FALSE, index)
          IN /\ doc' = res.d
             /\ comments' = res.comments
             /\ cmd' = Cmd("remove", res, <<>>, index)
    /\ ncmds' = ncmds + 1
    /\ UNCHANGED <<phase, nfrags, first, second, compareVars, commentsPart, allocated, toolVars>>

\* comments.py remove <file>
RemoveAllComments ==
    /\ CanRun
    /\ LET res == remove_comments(doc, commentsPart, comments, TRUE, 0)
       IN /\ doc' = res.d
          /\ comments' = res.comments
          /\ cmd' = Cmd("remove_all", res, <<>>, <<>>)
    /\ ncmds' = ncmds + 1
    /\ UNCHANGED <<phase, nfrags, first, second, compareVars, commentsPart, allocated, toolVars>>

NextComments ==
    \/ AddComment
    \/ RemoveComment
    \/ RemoveAllComments

SpecComments == InitComments /\ [][NextComments]_vars

-----------------------------------------------------------------------------
(* Properties of the comments session, checked under SpecComments *)

\* C9: an id add_comment has once given to a comment is never given to a
\* later comment, whatever was removed in between.
C9_IdsNeverReused ==
    \A i, j \in 1..Len(allocated) : i # j => allocated[i] # allocated[j]

Distinct(table) ==
    \A i, j \in 1..Len(table) : i # j => table[i].id # table[j].id

IntIds(table) == {ToInt(table[i].id) : i \in {k \in 1..Len(table) : IsInt(table[k].id)}}

Added == cmd.op = "add" /\ cmd.status = "ok"

\* C10 as stated: the new id is 1 + the maximum integer id among the
\* existing records (0 when there is none), distinct ids stay distinct and
\* the new id is greater than every existing integer id.
C10_MaxPlusOne ==
    Added =>
        /\ cmd.id = Str(IF IntIds(cmd.before) = {} THEN 0
                        ELSE SetMax(IntIds(cmd.before)) + 1)
        /\ Distinct(cmd.before) => Distinct(comments)
        /\ \A n \in IntIds(cmd.before) : ToInt(cmd.id) > n

\* C10 amended: the new id is the larger of 0 and 1 + the maximum integer id
\* among the existing records (0 when there is none), non-integer ids being
\* ignored; distinct ids stay distinct and the new id is greater than every
\* existing integer id.
C10_NextId ==
    Added =>
        /\ comments = Append(cmd.before, CommentRecord(cmd.id, "Alice", <<"n">>))
        /\ IsInt(cmd.id)
        /\ ToInt(cmd.id) = SetMax({0} \cup {n + 1 : n \in IntIds(cmd.before)})
        /\ cmd.id = Str(ToInt(cmd.id))
        /\ Distinct(cmd.before) => Distinct(comments)
        /\ \A n \in IntIds(cmd.before) : ToInt(cmd.id) > n

\* C10 witness: a comment added to a table of two or more records with
\* distinct ids, an integer one among them, gets an id of 2 or more
C10_Witness ==
    /\ Added
    /\ Len(cmd.before) >= 2
    /\ IntIds(cmd.before) # {}
    /\ Distinct(cmd.before)
    /\ ToInt(cmd.id) >= 2


\* C11: whenever add_comment succeeds, the commented text resolved for the
\* new comment (the text between its start and end anchor) equals the
\* search text.
C11_AnchoredTextIsSearchText ==
    Added => find_commented_text(doc, cmd.id) = cmd.arg

\* the paragraph add_comment attaches a comment on search text s to
TargetPara(d, s) ==
    Head(SelectSeq(SelectSeq(d[Body].kids, LAMBDA k : d[k].tag = "p"),
                   LAMBDA k : Contains(ParaText(d, k), s)))

\* the runs of paragraph p
RunsOf(d, p) == SelectSeq(d[p].kids, LAMBDA k : d[k].tag = "r")

\* the number of characters of paragraph text held by the first k runs
PrefixLen(d, runs, k) == Len(Concat([i \in 1..k |-> RunText(d, runs[i])]))

\* 0-based offset of the first occurrence of needle in hay
FirstOccurrence(hay, needle) ==
    SetMin({i \in 0..(Len(hay) - Len(needle)) : SubSeq(hay, i + 1, i + Len(needle)) = needle})

\* the run in which the first occurrence of s begins, and the one in which
\* it ends
BeginRun(d, s) ==
    LET runs == RunsOf(d, TargetPara(d, s))
        at == FirstOccurrence(ParaText(d, TargetPara(d, s)), s)
    IN runs[SetMin({k \in 1..Len(runs) : PrefixLen(d, runs, k) > at})]

EndRun(d, s) ==
    LET runs == RunsOf(d, TargetPara(d, s))
        at == FirstOccurrence(ParaText(d, TargetPara(d, s)), s)
    IN runs[SetMin({k \in 1..Len(runs) : PrefixLen(d, runs, k) >= at + Len(s)})]

\* the elements of the saved tree with the given tag and w:id
Anchors(d, tag, id) == {n \in InTree(d) : d[n].tag = tag /\ d[n].wid = id}

\* n is the sibling right after m
RightAfter(d, m, n) ==
    /\ d[m].parent # NoNode
    /\ d[m].parent = d[n].parent
    /\ IndexOf(d[d[m].parent].kids, n) = IndexOf(d[d[m].parent].kids, m) + 1

\* C12: add_comment puts the start anchor right before the run in which the
\* first occurrence of the search text begins and the end anchor right
\* after the run in which that occurrence ends, whatever later runs hold.
C12_FirstMatchWins ==
    (Added /\ cmd.arg # <<>>)
        => /\ \E a \in Anchors(doc, "commentRangeStart", cmd.id) :
                 RightAfter(doc, a, BeginRun(cmd.doc, cmd.arg))
           /\ \E a \in Anchors(doc, "commentRangeEnd", cmd.id) :
                 RightAfter(doc, EndRun(cmd.doc, cmd.arg), a)

\* C13: after a successful add_comment the body holds exactly one start
\* and one end anchor with the new id, both children of one paragraph, the
\* start before the end, and the reference run right after the end anchor.
C13_AnchorsWellFormed ==
    Added =>
        LET starts == Anchors(doc, "commentRangeStart", cmd.id)
            ends == Anchors(doc, "commentRangeEnd", cmd.id)
        IN /\ Cardinality(starts) = 1
           /\ Cardinality(ends) = 1
           /\ \A s \in starts, e \in ends :
                 LET p == doc[s].parent
                 IN /\ p # NoNode
                    /\ doc[p].tag = "p"
                    /\ doc[e].parent = p
                    /\ IndexOf(doc[p].kids, s) < IndexOf(doc[p].kids, e)
                    /\ \E r \in InTree(doc) :
                          /\ doc[r].tag = "r"
                          /\ RightAfter(doc, e, r)
                          /\ \E c \in Anchors(doc, "commentReference", cmd.id) :
                                doc[c].parent = r

\* the runs of the target paragraph that the loop of add_comment matches
HitRuns(d, s) ==
    SelectSeq(RunsOf(d, TargetPara(d, s)),
              LAMBDA r : Contains(RunText(d, r), s)
                            \/ (RunText(d, r) # <<>> /\ Contains(s, RunText(d, r))))

\* C13 witness: a comment added through the whole-paragraph fallback (runs,
\* none of them matched) to a paragraph that already carries a comment
C13_Witness ==
    /\ Added
    /\ RunsOf(cmd.doc, TargetPara(cmd.doc, cmd.arg)) # <<>>
    /\ HitRuns(cmd.doc, cmd.arg) = <<>>
    /\ cmd.before # <<>>

-----------------------------------------------------------------------------
(* A review session: track_changes.py accept / reject on a document that   *)
(* carries comments, the anchors of one comment lying partly or wholly     *)
(* inside a tracked insertion or deletion, as Word writes them when a      *)
(* comment is made on tracked text.                                        *)

\* the i-th element of a commented run, in document order: start anchor,
\* the run, end anchor, reference run
CommentPiece(d, c, i, id, texttag) ==
    IF i = 1 THEN SubElement(d, c, "commentRangeStart", "", id, <<>>)
    ELSE IF i = 2 THEN TextRun(d, c, texttag, <<"a">>)
    ELSE IF i = 3 THEN SubElement(d, c, "commentRangeEnd", "", id, <<>>)
    ELSE LET rr == NewRefRun(d, id) IN AppendChild(rr.d, c, rr.r)

RECURSIVE CommentPieces(_, _, _, _, _, _, _)
\* pieces i..4 under paragraph p, pieces lo..hi inside a marker mk (none
\* when lo > hi) that is opened before piece lo; m is the open marker
CommentPieces(d, p, m, i, lo, hi, mk) ==
    IF i > 4 THEN d
    ELSE IF i = lo /\ lo <= hi /\ m = NoNode
        THEN LET d1 == SubElement(d, p, mk.tag, mk.author, <<"7">>, <<>>)
             IN CommentPieces(d1, p, Last(d1), i, lo, hi, mk)
    ELSE LET inside == lo <= i /\ i <= hi
             c == IF inside THEN m ELSE p
             texttag == IF inside /\ mk.tag = "del" THEN "delText" ELSE "t"
         IN CommentPieces(CommentPiece(d, c, i, mk.id, texttag), p, m, i + 1, lo, hi, mk)

\* a paragraph with a commented run of which pieces lo..hi lie inside a
\* marker (none when lo > hi), then a paragraph with a comment on plain text
ReviewDoc(tag, author, lo, hi) ==
    LET d1 == SubElement(EmptyBody, Body, "p", "", <<>>, <<>>)
        d2 == CommentPieces(d1, Last(d1), NoNode, 1, lo, hi,
                            [tag |-> tag, author |-> author, id |-> <<"0">>])
        d3 == SubElement(d2, Body, "p", "", <<>>, <<>>)
    IN CommentPieces(d3, Last(d3), NoNode, 1, 1, 0,
                     [tag |-> "", author |-> "", id |-> <<"1">>])

InitReview ==
    /\ NoTools
    /\ phase = "open"
    /\ \E tag \in {"ins", "del"}, author \in Authors, lo \in 1..4, hi \in 0..4 :
          /\ lo <= hi \/ (hi = 0 /\ lo = 1)
          /\ doc = ReviewDoc(tag, author, lo, hi)
    /\ comments = << CommentRecord(<<"0">>, "Bob", <<"n">>),
                     CommentRecord(<<"1">>, "Bob", <<"n">>) >>
    /\ commentsPart = TRUE
    /\ cmd = NoCmd
    /\ allocated = <<>>
    /\ ncmds = 0
    /\ nfrags = 0
    /\ first = NoCall
    /\ second = NoCall
    /\ revisedParas = <<>>
    /\ granularity = "paragraph"
    /\ diffs = <<>>

NextReview ==
    \/ Accept
    \/ Reject

SpecReview == InitReview /\ [][NextReview]_vars

-----------------------------------------------------------------------------
(* Properties of the review session, checked under SpecReview *)

\* the comment ids the document knows: those of records and of anchors
CommentIds(d, table) ==
    {table[i].id : i \in 1..Len(table)}
        \cup {d[n].wid : n \in {k \in InTree(d) : d[k].tag \in AnchorTags}}

Records(table, id) == {i \in 1..Len(table) : table[i].id = id}

\* comment id has one start anchor, one end anchor, one reference and one
\* record
Complete(d, table, id) ==
    /\ \A tag \in AnchorTags : Cardinality(Anchors(d, tag, id)) = 1
    /\ Cardinality(Records(table, id)) = 1

\* nothing of comment id is left
Gone(d, table, id) ==
    /\ \A tag \in AnchorTags : Anchors(d, tag, id) = {}
    /\ Records(table, id) = {}

\* C14: a resolve call on a tree in which every comment is complete leaves
\* every comment either complete or gone, anchors and record alike.
C14_NoOrphanedComment ==
    \A c \in Calls :
        (\A id \in CommentIds(c.before, comments) : Complete(c.before, comments, id))
            => \A id \in CommentIds(c.before, comments) :
                  Complete(c.after, comments, id) \/ Gone(c.after, comments, id)

-----------------------------------------------------------------------------
(* Properties of the diff, checked under SpecRedline *)

RECURSIVE SideOf(_, _)
\* the paragraph texts one side of a diff holds, in order: kept is the
\* type a one-sided entry must have to count ("inserted" for the revised
\* side, "deleted" for the original side)
SideOf(ds, kept) ==
    IF ds = <<>> THEN <<>>
    ELSE LET diff == Head(ds)
             here == IF diff.type \in {"equal", kept} THEN <<diff.text>>
                     ELSE IF diff.type = "modified"
                        THEN IF kept = "inserted" THEN <<diff.revised_text>>
                                                  ELSE <<diff.original_text>>
                     ELSE <<>>
         IN here \o SideOf(Tail(ds), kept)

\* C15: the diff of A and B gives B when its revised side is read in order
\* and A when its original side is read in order, for both granularities,
\* and only equal entries when A and B hold the same texts.
C15_DiffReconstructs ==
    phase = "diffed"
        => /\ SideOf(diffs, "inserted") = Texts(revisedParas)
           /\ SideOf(diffs, "deleted") = Texts(extract_paragraphs(doc))
           /\ Texts(extract_paragraphs(doc)) = Texts(revisedParas)
                 => \A i \in 1..Len(diffs) : diffs[i].type = "equal"

\* the text of every w:t / w:delText below node n, in document order
TextBelow(d, n) ==
    Concat([i \in 1..Len(SelectSeq(Iter(d, n), LAMBDA k : d[k].tag \in {"t", "delText"}))
               |-> d[SelectSeq(Iter(d, n), LAMBDA k : d[k].tag \in {"t", "delText"})[i]].text])

\* what a child of a redline paragraph shows: live text, a deletion or an
\* insertion, with its text
Shown(d, k) ==
    [type |-> IF d[k].tag = "del" THEN "deleted"
              ELSE IF d[k].tag = "ins" THEN "inserted" ELSE "equal",
     text |-> TextBelow(d, k)]

\* the runs and markers of paragraph p as word ops
ShownOps(d, p) ==
    LET content == SelectSeq(d[p].kids, LAMBDA k : d[k].tag # "pPr")
    IN [i \in 1..Len(content) |-> Shown(d, content[i])]

\* a deletion holds only delText, live and inserted runs only w:t
RightTextKind(d, p) ==
    \A k \in {x \in InTree(d) : d[x].tag \in {"t", "delText"}} :
        \A m \in {x \in InTree(d) : d[x].parent = p} :
            k \in {Iter(d, m)[i] : i \in 1..Len(Iter(d, m))}
                => (d[k].tag = "delText" <=> d[m].tag = "del")

\* C16: in the redline every modified op is one paragraph whose content
\* follows the op's word ops: equal words as live text, deleted words as a
\* deletion, inserted words as an insertion.
C16_ModifiedFollowsWordOps ==
    first.action = "redline"
        => LET paras == SelectSeq(first.after[Body].kids,
                                  LAMBDA k : first.after[k].tag = "p")
           IN /\ Len(paras) = Len(diffs)
              /\ \A i \in 1..Len(diffs) :
                    diffs[i].type = "modified"
                        => /\ ShownOps(first.after, paras[i]) = diffs[i].word_diffs
                           /\ RightTextKind(first.after, paras[i])

-----------------------------------------------------------------------------
(* Properties of remove_comments, checked under SpecComments *)

Removed == cmd.op \in {"remove", "remove_all"} /\ cmd.status = "ok"

\* the ids of the comments the last remove command removed
RemovedIds ==
    IF cmd.op = "remove_all" THEN {cmd.before[i].id : i \in 1..Len(cmd.before)}
    ELSE IF cmd.arg \in 0..(Len(cmd.before) - 1) THEN {cmd.before[cmd.arg + 1].id}
    ELSE {}

\* the anchors of the body that carry none of the given ids, in document
\* order, each with its parent
OtherAnchors(d, ids) ==
    LET others == SelectSeq(Iter(d, Body),
                            LAMBDA n : d[n].tag \in AnchorTags /\ d[n].wid \notin ids)
    IN [i \in 1..Len(others) |-> <<others[i], d[others[i]].parent>>]

\* after a remove command: no record and no anchor with a removed id is
\* left, and the records and anchors of the other comments are as before
RemovalCompleteAndLocal ==
    /\ \A i \in 1..Len(comments) : comments[i].id \notin RemovedIds
    /\ \A n \in InTree(doc) : doc[n].tag \in AnchorTags => doc[n].wid \notin RemovedIds
    /\ comments = SelectSeq(cmd.before, LAMBDA c : c.id \notin RemovedIds)
    /\ OtherAnchors(doc, RemovedIds) = OtherAnchors(cmd.doc, RemovedIds)

\* C17 as stated: remove_comments, by index or for all comments, leaves no
\* record and no anchor with a removed id and leaves the records and
\* anchors of every other comment unchanged.
C17_RemoveCompleteLocal == Removed => RemovalCompleteAndLocal

\* C17 amended: the same for a document whose comment records have
\* pairwise distinct ids.
C17_RemoveCompleteLocalDistinct ==
    (Removed /\ Distinct(cmd.before)) => RemovalCompleteAndLocal

\* C17 witness: the second of two or more distinct comments removed by
\* index, anchors of another comment being in the body
C17_Witness ==
    /\ Removed
    /\ cmd.op = "remove"
    /\ cmd.arg >= 1
    /\ Distinct(cmd.before)
    /\ RemovedIds # {}
    /\ OtherAnchors(cmd.doc, RemovedIds) # <<>>
    /\ OtherAnchors(cmd.doc, {}) # OtherAnchors(cmd.doc, RemovedIds)

\* the removed comment references of the body that were inside a run
RemovedRefs ==
    {c \in InTree(cmd.doc) :
        /\ cmd.doc[c].tag = "commentReference"
        /\ cmd.doc[c].wid \in RemovedIds
        /\ cmd.doc[cmd.doc[c].parent].tag = "r"}

\* the children of run r other than its run properties
RunContent(d, r) == SelectSeq(d[r].kids, LAMBDA k : d[k].tag # "rPr")

\* the run of removed reference c is gone
RunGone(c) == cmd.doc[c].parent \notin InTree(doc)

\* the run of removed reference c is kept, the removed references taken out
RunKept(c) ==
    LET r == cmd.doc[c].parent
    IN /\ r \in InTree(doc)
       /\ doc[r].parent = cmd.doc[r].parent
       /\ doc[r].kids = SelectSeq(cmd.doc[r].kids, LAMBDA k : k \notin RemovedRefs)

\* C18: remove_comments removes the run around a removed comment reference
\* exactly when the reference was the run's only content besides its run
\* properties; any other run is kept and loses only the reference.
C18_WrapperRunRemoval ==
    Removed =>
        \A c \in RemovedRefs :
            IF RunContent(cmd.doc, cmd.doc[c].parent) = <<c>>
               THEN RunGone(c)
               ELSE RunKept(c)

\* C18 witness: one removal that takes out a reference run and keeps a run
\* with live text that held a reference
C18_Witness ==
    /\ Removed
    /\ \E c \in RemovedRefs : RunContent(cmd.doc, cmd.doc[c].parent) = <<c>> /\ RunGone(c)
    /\ \E c \in RemovedRefs :
          /\ RunText(cmd.doc, cmd.doc[c].parent) # <<>>
          /\ RunKept(c)
          /\ RunText(doc, cmd.doc[c].parent) = RunText(cmd.doc, cmd.doc[c].parent)

-----------------------------------------------------------------------------
(* Text preservation of the resolver, checked under SpecResolve *)

RECURSIVE Inside(_, _, _)
\* node n has an ancestor with the given tag
Inside(d, n, tag) ==
    LET p == d[n].parent
    IN IF p = NoNode THEN FALSE
       ELSE d[p].tag = tag \/ Inside(d, p, tag)

\* the live text of the tree: its w:t nodes in document order, with text
LiveText(d) ==
    LET ts == IterTag(d, Body, "t")
    IN [i \in 1..Len(ts) |-> <<ts[i], d[ts[i]].text>>]

\* the text accepting everything must keep: live text outside deletions
KeptByAccept(d) ==
    LET ts == SelectSeq(Iter(d, Body), LAMBDA n : d[n].tag = "t" /\ ~Inside(d, n, "del"))
    IN [i \in 1..Len(ts) |-> <<ts[i], d[ts[i]].text>>]

\* the text rejecting everything must keep: live text and the deleted text
\* of deletions, outside insertions
KeptByReject(d) ==
    LET ts == SelectSeq(Iter(d, Body),
                        LAMBDA n : /\ \/ d[n].tag = "t"
                                      \/ d[n].tag = "delText" /\ Inside(d, n, "del")
                                   /\ ~Inside(d, n, "ins"))
    IN [i \in 1..Len(ts) |-> <<ts[i], d[ts[i]].text>>]

-----------------------------------------------------------------------------
(* Failure of add_comment, checked under SpecComments *)

\* the texts of the body's paragraphs before the last command
TextsBefore == Texts(extract_paragraphs(cmd.doc))

\* s occurs in text, character by character, at some offset
OccursIn(s, text) ==
    \E at \in 0..(Len(text) - Len(s)) : \A i \in 1..Len(s) : text[at + i] = s[i]

\* C20: add_comment fails exactly when the search text is an exact
\* substring of no paragraph's text, and a failing call leaves the comment
\* records, the body and the saved document as they were.
C20_NotFoundExactly ==
    cmd.op = "add"
        => /\ cmd.status = "error"
                 <=> \A i \in 1..Len(TextsBefore) : ~OccursIn(cmd.arg, TextsBefore[i])
           /\ cmd.status = "error"
                 => /\ comments = cmd.before
                    /\ doc = cmd.doc
                    /\ commentsPart = cmd.part

\* C20 witness: a failing add whose search text is no substring of any
\* paragraph although each of its characters occurs in one
C20_Witness ==
    /\ cmd.op = "add"
    /\ cmd.status = "error"
    /\ cmd.arg # <<>>
    /\ \E i \in 1..Len(TextsBefore) : ContainsChars(TextsBefore[i], cmd.arg)
    /\ cmd.before # <<>>

-----------------------------------------------------------------------------
(* Errors of remove_comments, checked under SpecComments *)

\* C21: remove_comments with an index that names no existing comment
\* (negative, or not below the number of comments, a document without
\* comments included) ends in an error, removes nothing and writes no file.
C21_BadIndexFails ==
    (cmd.op = "remove" /\ cmd.arg \notin 0..(Len(cmd.before) - 1))
        => /\ cmd.status = "error"
           /\ comments = cmd.before
           /\ doc = cmd.doc
           /\ cmd.saved = <<>>

-----------------------------------------------------------------------------
(* Every command that writes a file, in one specification: a session is    *)
(* either a compare session or a comments session.                         *)

InitCommands == InitRedline \/ InitComments

NextCommands ==
    \/ NextRedline
    \/ NextComments

SpecCommands == InitCommands /\ [][NextCommands]_vars

\* the file a track-changes or redline command wrote is the tree it ended with
WroteResult(c) == c.action # "none" => c.saved = <<c.after>>

\* C22: no partially applied command is saved: accept_changes,
\* reject_changes, add_comment, remove_comments and create_redline_docx write
\* their output exactly once, and what they write is the tree and the comment
\* table as the command left them; a command that ends in an error writes
\* nothing (and has changed nothing).
C22_SavedOnceWhenDone ==
    /\ WroteResult(first)
    /\ WroteResult(second)
    /\ cmd.op # "none" =>
          IF cmd.status = "ok"
             THEN cmd.saved = <<Saved(doc, comments)>>
             ELSE cmd.saved = <<>> /\ doc = cmd.doc /\ comments = cmd.before

\* a redline of two changes was written, then an accept that resolved changes
C22_Witness ==
    /\ first.action = "redline" /\ first.count >= 2
    /\ second.action = "accept" /\ second.count >= 1
    /\ second.after # second.before
    /\ Len(second.saved) = 1

-----------------------------------------------------------------------------
(* merge.py: merge_fallback and main.  docxcompose is taken as not         *)
(* installed, so that main() merges with merge_fallback.                   *)

\* files that may be named on one command line
MaxFiles == 3

RECURSIVE CopyBelow(_, _, _, _)
RECURSIVE CopyKids(_, _, _, _)
\* the subtree of src below n, copied into d as the last child of p
CopyBelow(d, src, n, p) ==
    LET d1 == SubElement(d, p, src[n].tag, src[n].author, src[n].wid, src[n].text)
        new == Last(d1)
    IN CopyKids(SetVal(d1, new, src[n].val), src, src[n].kids, new)
CopyKids(d, src, ks, p) ==
    IF ks = <<>> THEN d
    ELSE CopyKids(CopyBelow(d, src, Head(ks), p), src, Tail(ks), p)

\* copy.deepcopy(element): a detached copy of src's element n, the last node of
\* the arena it returns
DeepCopy(d, src, n) ==
    LET d1 == Append(d, [src[n] EXCEPT !.parent = NoNode, !.kids = <<>>])
    IN CopyKids(d1, src, src[n].kids, Len(d1))

\* the node DeepCopy has just created
CopyOf(d, d1) == Len(d) + 1

\* sect_prs = body.findall(w:sectPr); sect_prs[-1].addprevious(new) if there
\* is one, else body.append(new)
AddBeforeSectPr(d, new) ==
    LET sect_prs == SelectSeq(d[Body].kids, LAMBDA k : d[k].tag = "sectPr")
    IN IF sect_prs # <<>>
          THEN InsertChild(d, Body, IndexOf(d[Body].kids, sect_prs[Len(sect_prs)]), new)
          ELSE AppendChild(d, Body, new)

RECURSIVE CopyBlocks(_, _, _)
\* for para in source.paragraphs / for table in source.tables
CopyBlocks(d, src, blocks) ==
    IF blocks = <<>> THEN d
    ELSE LET d1 == DeepCopy(d, src, Head(blocks))
         IN CopyBlocks(AddBeforeSectPr(d1, CopyOf(d, d1)), src, Tail(blocks))

\* if page_breaks: SubElement(body, w:p) / w:r / w:br w:type="page"
PageBreak(d) ==
    LET d1 == SubElement(d, Body, "p", "", <<>>, <<>>)
        d2 == SubElement(d1, Last(d1), "r", "", <<>>, <<>>)
        d3 == SubElement(d2, Last(d2), "br", "", <<>>, <<>>)
    IN SetVal(d3, Last(d3), <<"p", "a", "g", "e">>)

\* doc.paragraphs / doc.tables: the w:p / w:tbl children of the body
BodyChildren(d, tag) == SelectSeq(d[Body].kids, LAMBDA k : d[k].tag = tag)

RECURSIVE MergeLoop(_, _, _)
\* for path in file_paths[1:]
MergeLoop(merged, sources, page_breaks) ==
    IF sources = <<>> THEN merged
    ELSE LET source == Head(sources)
             d1 == IF page_breaks THEN PageBreak(merged) ELSE merged
             d2 == CopyBlocks(d1, source, BodyChildren(source, "p"))
             d3 == CopyBlocks(d2, source, BodyChildren(source, "tbl"))
         IN MergeLoop(d3, Tail(sources), page_breaks)

\* merge_fallback(file_paths, output_path, page_breaks, style_from): the tree
\* that is saved
merge_fallback(file_paths, page_breaks, style_from) ==
    MergeLoop(file_paths[1], Tail(file_paths), page_breaks)

\* file_paths[::-1]
Reversed(seq) == [i \in 1..Len(seq) |-> seq[Len(seq) + 1 - i]]

\* main(): "Reverse file order if style-from is 'last'"
FilePaths(paths, style_from) ==
    IF style_from = "last" THEN Reversed(paths) ELSE paths

RECURSIVE WriteBlocks(_, _)
\* a body built from its blocks: a paragraph named by its text, or a table
\* ("tbl") of one cell holding one paragraph
WriteBlocks(d, blocks) ==
    IF blocks = <<>> THEN d
    ELSE IF Head(blocks) = "tbl"
        THEN LET d1 == SubElement(d, Body, "tbl", "", <<>>, <<>>)
                 d2 == SubElement(d1, Last(d1), "tr", "", <<>>, <<>>)
                 d3 == SubElement(d2, Last(d2), "tc", "", <<>>, <<>>)
                 d4 == SubElement(d3, Last(d3), "p", "", <<>>, <<>>)
             IN WriteBlocks(TextRun(d4, Last(d4), "t", <<"t">>), Tail(blocks))
        ELSE LET d1 == SubElement(d, Body, "p", "", <<>>, <<>>)
             IN WriteBlocks(TextRun(d1, Last(d1), "t", <<Head(blocks)>>), Tail(blocks))

\* the documents to merge: their blocks, with and without a final w:sectPr
MergeDocs ==
    LET bodies == {WriteBlocks(EmptyBody, bs) : bs \in {<<"a">>, <<"b", "tbl">>, <<"tbl", "c">>}}
    IN bodies \cup {SubElement(d, Body, "sectPr", "", <<>>, <<>>) : d \in bodies}

InitMerge ==
    /\ phase = "files"
    /\ files \in UNION {[1..k -> MergeDocs] : k \in 2..MaxFiles}
    /\ doc = EmptyBody
    /\ nfrags = 0
    /\ first = NoCall
    /\ second = NoCall
    /\ revisedParas = <<>>
    /\ granularity = "paragraph"
    /\ diffs = <<>>
    /\ NoComments
    /\ headings = <<>>
    /\ styles = {}

\* merge.py file... -o out [--page-breaks] [--style-from first|last]
Merge ==
    /\ phase = "files"
    /\ \E style_from \in {"first", "last"}, page_breaks \in BOOLEAN :
          LET file_paths == FilePaths(files, style_from)
              merged == merge_fallback(file_paths, page_breaks, style_from)
          IN /\ doc' = merged
             /\ first' = [action |-> "merge", filter |-> style_from,
                          count |-> Len(file_paths), before |-> page_breaks,
                          after |-> merged, saved |-> <<merged>>]
    /\ phase' = "merged"
    /\ UNCHANGED <<nfrags, second, compareVars, commentVars, toolVars>>

NextMerge == Merge

SpecMerge == InitMerge /\ [][NextMerge]_vars

\* the texts of the body's paragraphs that hold text, in document order
BodyTexts(d) ==
    LET ps == SelectSeq(BodyChildren(d, "p"), LAMBDA p : ParaText(d, p) # <<>>)
    IN [i \in 1..Len(ps) |-> ParaText(d, ps[i])]

\* C23: the merged document holds the content of the input documents in the
\* order the files were given on the command line, whatever --style-from is.
C23_MergeKeepsOrder ==
    first.action = "merge"
        => BodyTexts(doc) = Concat([i \in 1..Len(files) |-> BodyTexts(files[i])])

-----------------------------------------------------------------------------
(* Word granularity of compare_paragraphs, checked under SpecRedline *)

\* the number of diffs the opcode o stands for at word granularity
OpSize(o) ==
    CASE o.tag = "equal" -> o.i2 - o.i1
      [] o.tag = "replace" -> (o.i2 - o.i1) * (o.j2 - o.j1)
      [] o.tag = "delete" -> o.i2 - o.i1
      [] o.tag = "insert" -> o.j2 - o.j1

RECURSIVE SizeUpTo(_, _)
\* the number of diffs the first k opcodes stand for
SizeUpTo(ops, k) == IF k = 0 THEN 0 ELSE SizeUpTo(ops, k - 1) + OpSize(ops[k])

\* the paragraph alignment of the comparison that has just run
Alignment == get_opcodes(Texts(extract_paragraphs(doc)), Texts(revisedParas))

\* C24: at word granularity a replace range of m original and n revised
\* paragraphs gives exactly m*n modified diffs, one for every pair
\* (original[i], revised[j]) in row-major order, each with the word diff of
\* that pair, and no deleted or inserted diff for the range.
C24_ReplacePairsAll ==
    (phase = "diffed" /\ granularity = "word") =>
        LET A == extract_paragraphs(doc)
            B == revisedParas
            ops == Alignment
        IN /\ Len(diffs) = SizeUpTo(ops, Len(ops))
           /\ \A k \in 1..Len(ops) : ops[k].tag = "replace" =>
                 LET o == ops[k]
                     n == o.j2 - o.j1
                     off == SizeUpTo(ops, k - 1)
                 IN \A r \in 0..(o.i2 - o.i1 - 1), c \in 0..(n - 1) :
                       LET diff == diffs[off + r * n + c + 1]
                       IN /\ diff.type = "modified"
                          /\ diff.original_text = A[o.i1 + r + 1].text
                          /\ diff.revised_text = B[o.j1 + c + 1].text
                          /\ diff.word_diffs = compare_words(A[o.i1 + r + 1].text,
                                                             B[o.j1 + c + 1].text)

\* a replace range of two original and two revised paragraphs was compared
C24_Witness ==
    /\ phase = "diffed" /\ granularity = "word"
    /\ \E k \in 1..Len(Alignment) :
          /\ Alignment[k].tag = "replace"
          /\ Alignment[k].i2 - Alignment[k].i1 = 2
          /\ Alignment[k].j2 - Alignment[k].j1 = 2
    /\ Len(diffs) = 4
-----------------------------------------------------------------------------
(* compare_words on its own: two documents of one paragraph each, compared *)
(* at word granularity, the texts drawn from the strings of up to MaxWords *)
(* words.                                                                   *)

MaxWords == 3

Words == {<<"a">>, <<"b">>, <<"c">>}

\* the texts under comparison: words joined by single blanks, and two texts
\* with a leading and a doubled blank
WordStrings ==
    {Join(ws) : ws \in UNION {[1..k -> Words] : k \in 0..MaxWords}}
    \cup {<<" ", "a">>, <<"a", " ", " ", "b">>}

InitWords ==
    /\ NoTools
    /\ phase = "start"
    /\ \E o \in WordStrings :
          doc = OriginalDoc(<<[text |-> o, style |-> Normal]>>, [kind |-> "none", id |-> 0])
    /\ \E r \in WordStrings : revisedParas = <<[text |-> r, style |-> Normal]>>
    /\ granularity = "word"
    /\ diffs = <<>>
    /\ nfrags = 0
    /\ first = NoCall
    /\ second = NoCall
    /\ NoComments

NextWords == Compare

SpecWords == InitWords /\ [][NextWords]_vars

\* the texts of the word diffs whose type is one of kinds, in order
TextsOf(word_diffs, kinds) ==
    LET sel == SelectSeq(word_diffs, LAMBDA w : w.type \in kinds)
    IN [i \in 1..Len(sel) |-> sel[i].text]

\* the number of replace opcodes among the first k
RECURSIVE ReplacesUpTo(_, _)
ReplacesUpTo(ops, k) ==
    IF k = 0 THEN 0
    ELSE ReplacesUpTo(ops, k - 1) + (IF ops[k].tag = "replace" THEN 1 ELSE 0)

WordDiffSound(original, revised, word_diffs) ==
    LET orig_words == Split(original)
        rev_words == Split(revised)
        ops == get_opcodes(orig_words, rev_words)
    IN /\ Join(TextsOf(word_diffs, {"equal", "inserted"})) = Join(rev_words)
       /\ Join(TextsOf(word_diffs, {"equal", "deleted"})) = Join(orig_words)
       /\ Len(word_diffs) = Len(ops) + ReplacesUpTo(ops, Len(ops))
       /\ \A k \in 1..Len(ops) : ops[k].tag = "replace" =>
             LET at == k + ReplacesUpTo(ops, k - 1)
             IN /\ word_diffs[at] =
                      WordDiff("deleted", Join(Slice(orig_words, ops[k].i1, ops[k].i2)))
                /\ word_diffs[at + 1] =
                      WordDiff("inserted", Join(Slice(rev_words, ops[k].j1, ops[k].j2)))

\* C26: the word diff of compare_words gives back the revised string, split at
\* white space, when its equal and inserted texts are joined by single blanks,
\* gives back the original string when its equal and deleted texts are joined,
\* and shows a replaced range of words as a deleted op immediately followed
\* by an inserted op.
C26_WordDiffReconstructs ==
    \A i \in 1..Len(diffs) : diffs[i].type = "modified" =>
        WordDiffSound(diffs[i].original_text, diffs[i].revised_text, diffs[i].word_diffs)

\* "a b c" against "a a c": equal "a", deleted "b", inserted "a", equal "c"
C26_Witness ==
    /\ Len(diffs) = 1
    /\ diffs[1].type = "modified"
    /\ diffs[1].original_text = <<"a", " ", "b", " ", "c">>
    /\ diffs[1].word_diffs = << WordDiff("equal", <<"a">>), WordDiff("deleted", <<"b">>),
                                WordDiff("inserted", <<"a">>), WordDiff("equal", <<"c">>) >>

-----------------------------------------------------------------------------
(* Unwrapping, checked on the documents of SpecResolve and on the reviewed *)
(* documents of SpecReview (a marker with content, between siblings).      *)

InitUnwrap ==
    \/ InitResolve
    \/ /\ NoTools
       /\ phase = "open"
       /\ \E tag \in {"ins", "del"}, author \in Authors, lo \in 1..4, hi \in 0..4 :
             /\ lo <= hi \/ (hi = 0 /\ lo = 1)
             /\ doc = ReviewDoc(tag, author, lo, hi)
       /\ nfrags = MaxFrags
       /\ first = NoCall
       /\ second = NoCall
       /\ revisedParas = <<>>
       /\ granularity = "paragraph"
       /\ diffs = <<>>
       /\ NoComments

SpecUnwrap == InitUnwrap /\ [][NextResolve]_vars

RECURSIVE Unwrap(_, _, _, _, _)
RECURSIVE UnwrapKids(_, _, _, _, _)
\* the tree below n with every wrapper (a tag element the filter f matches)
\* replaced, where it stands, by its children in their order; below an
\* unwrapped w:del the deleted text is live text again
Unwrap(d, n, tag, f, inside) ==
    [tag |-> IF inside /\ d[n].tag = "delText" THEN "t" ELSE d[n].tag,
     author |-> d[n].author, wid |-> d[n].wid, val |-> d[n].val, text |-> d[n].text,
     kids |-> UnwrapKids(d, d[n].kids, tag, f, inside)]
UnwrapKids(d, ks, tag, f, inside) ==
    IF ks = <<>> THEN <<>>
    ELSE LET k == Head(ks)
             here == IF d[k].tag = tag /\ ~Skipped(d, k, f)
                        THEN UnwrapKids(d, d[k].kids, tag, f, inside \/ tag = "del")
                        ELSE <<Unwrap(d, k, tag, f, inside)>>
         IN here \o UnwrapKids(d, Tail(ks), tag, f, inside)

\* every revision marker of the tree is a tag element
OnlyMarkers(d, tag) == \A m \in Markers(d) : d[m].tag = tag

UnwrapsInPlace(c) ==
    /\ (c.action = "accept" /\ OnlyMarkers(c.before, "ins"))
          => ToTree(c.after, Body) = Unwrap(c.before, Body, "ins", c.filter, FALSE)
    /\ (c.action = "reject" /\ OnlyMarkers(c.before, "del"))
          => ToTree(c.after, Body) = Unwrap(c.before, Body, "del", c.filter, FALSE)

\* C25: accepting an insertion, and rejecting a deletion, puts the children of
\* the wrapper, in their order, where the wrapper stood among the children
\* of its parent, and leaves the order of the other siblings as it was, also
\* with adjacent or nested wrappers.
C25_UnwrapInPlace == UnwrapsInPlace(first) /\ UnwrapsInPlace(second)

\* an insertion with two or more children and a sibling on either side was
\* accepted, or such a deletion rejected
C25_Witness ==
    /\ first.action \in {"accept", "reject"}
    /\ OnlyMarkers(first.before, IF first.action = "accept" THEN "ins" ELSE "del")
    /\ \E m \in Markers(first.before) :
          /\ ~Skipped(first.before, m, first.filter)
          /\ Len(first.before[m].kids) >= 2
          /\ LET sibs == first.before[first.before[m].parent].kids
             IN /\ IndexOf(sibs, m) > 0
                /\ IndexOf(sibs, m) < Len(sibs) - 1

-----------------------------------------------------------------------------
(* The body of the redline, checked under SpecRedline *)

\* C27: in the document create_redline_docx builds, the w:sectPr kept from
\* the base document is the last child of the body: every generated
\* paragraph precedes it.
C27_SectPrStaysLast ==
    (first.action = "redline" /\ Find(first.before, Body, "sectPr") # NoNode) =>
        LET d == first.after
            sect == Find(d, Body, "sectPr")
        IN /\ sect # NoNode
           /\ \A p \in {d[Body].kids[i] : i \in 1..Len(d[Body].kids)} :
                 d[p].tag = "p" => IndexOf(d[Body].kids, p) < IndexOf(d[Body].kids, sect)

-----------------------------------------------------------------------------
(* track_changes.py: collect_changes, and a session that lists the changes *)
(* of a document and then resolves them.  In the tree an author of "" is a *)
(* marker without a w:author attribute.                                     *)

\* items (runs and markers) in the paragraph of a listed document
MaxItems == 2

Unknown == "Unknown"

\* element.get(w:author, 'Unknown')
ListedAuthor(d, m) == IF d[m].author = "" THEN Unknown ELSE d[m].author

\* "".join(t.text for t in element.iter(tag) if t.text)
TextParts(d, n, tag) ==
    LET ts == SelectSeq(IterTag(d, n, tag), LAMBDA k : d[k].text # <<>>)
    IN Concat([i \in 1..Len(ts) |-> d[ts[i]].text])

Change(type, d, m, text) ==
    [type |-> type, id |-> d[m].wid, author |-> ListedAuthor(d, m), text |-> text,
     element |-> m]

\* the insertion / deletion loop: a marker is listed "if text_parts"
TextChanges(d, type, tag, texttag) ==
    LET hit == SelectSeq(IterTag(d, Body, tag), LAMBDA m : TextParts(d, m, texttag) # <<>>)
    IN [i \in 1..Len(hit) |-> Change(type, d, hit[i], TextParts(d, hit[i], texttag))]

FormattingOnly == <<"(formatting only)">>

\* the rPrChange loop: the text of the run that holds the w:rPr
FormatChanges(d) ==
    LET rpcs == IterTag(d, Body, "rPrChange")
        text(rpc) ==
            LET parent_rpr == d[rpc].parent
                parent_run == IF parent_rpr = NoNode THEN NoNode ELSE d[parent_rpr].parent
                parts == IF parent_run = NoNode THEN <<>> ELSE TextParts(d, parent_run, "t")
            IN IF parts # <<>> THEN parts ELSE FormattingOnly
    IN [i \in 1..Len(rpcs) |-> Change("format_change", d, rpcs[i], text(rpcs[i]))]

\* the pPrChange and sectPrChange loops
PlainChanges(d, type, tag, text) ==
    LET ms == IterTag(d, Body, tag)
    IN [i \in 1..Len(ms) |-> Change(type, d, ms[i], text)]

\* collect_changes(doc)
collect_changes(d) ==
    TextChanges(d, "insertion", "ins", "t")
    \o TextChanges(d, "deletion", "del", "delText")
    \o FormatChanges(d)
    \o PlainChanges(d, "paragraph_change", "pPrChange", <<"(paragraph formatting change)">>)
    \o PlainChanges(d, "section_change", "sectPrChange", <<"(section formatting change)">>)

\* the authors a marker of a listed document carries: X, or none
ListAuthors == {"X", ""}

ListItems ==
    {[kind |-> k, author |-> a] : k \in {"ins", "emptyins", "del", "fmt"}, a \in ListAuthors}

RECURSIVE WriteItems(_, _, _, _)
\* the items as children of paragraph p, the k-th with w:id k
WriteItems(d, p, items, k) ==
    IF items = <<>> THEN d
    ELSE LET it == Head(items)
             d1 == CASE it.kind = "ins" ->
                          TextRun(SubElement(d, p, "ins", it.author, Str(k), <<>>),
                                  Len(d) + 1, "t", <<Letters[k]>>)
                     [] it.kind = "emptyins" ->
                          SubElement(d, p, "ins", it.author, Str(k), <<>>)
                     [] it.kind = "del" ->
                          TextRun(SubElement(d, p, "del", it.author, Str(k), <<>>),
                                  Len(d) + 1, "delText", <<Letters[k]>>)
                     [] it.kind = "fmt" ->
                          LET e1 == SubElement(d, p, "r", "", <<>>, <<>>)
                              e2 == WithRPrChange(e1, Last(e1), it.author, Str(k))
                          IN SubElement(e2, Last(e1), "t", "", <<>>, <<Letters[k]>>)
         IN WriteItems(d1, p, Tail(items), k + 1)

\* a listed document: one paragraph, its properties (a deleted paragraph
\* mark, a pPrChange, or none), its items, and the section properties (none,
\* plain or changed)
ListDoc(ppr, items, sect) ==
    LET d1 == SubElement(EmptyBody, Body, "p", "", <<>>, <<>>)
        p == Last(d1)
        d2 == CASE ppr = "none" -> d1
                [] ppr = "mark" -> PPrFragment(d1, p, "X", "", 8)
                [] ppr = "change" -> PPrFragment(d1, p, "", "X", 8)
        d3 == WriteItems(d2, p, items, 1)
    IN CASE sect = "none" -> d3
         [] sect = "plain" -> SectPrFragment(d3, "", <<>>)
         [] sect = "changed" -> SectPrFragment(d3, "X", <<"9">>)

InitListing ==
    /\ NoTools
    /\ phase = "open"
    /\ \E ppr \in {"none", "mark", "change"}, sect \in {"none", "plain", "changed"},
          items \in UNION {[1..k -> ListItems] : k \in 0..MaxItems} :
          doc = ListDoc(ppr, items, sect)
    /\ nfrags = 0
    /\ first = NoCall
    /\ second = NoCall
    /\ revisedParas = <<>>
    /\ granularity = "paragraph"
    /\ diffs = <<>>
    /\ NoComments

\* track_changes.py list <file>: list_changes prints the changes and their number
List ==
    /\ phase = "open"
    /\ LET changes == collect_changes(doc)
       IN first' = [action |-> "list", filter |-> "", count |-> Len(changes),
                    before |-> doc, after |-> changes, saved |-> <<>>]
    /\ phase' = "listed"
    /\ UNCHANGED <<doc, nfrags, second, compareVars, commentVars, toolVars>>

\* the authors the listing shows
ListedAuthors == {first.after[i].author : i \in 1..Len(first.after)}

\* track_changes.py accept <file> [--author f], f an author the listing shows
AcceptListed ==
    /\ phase = "listed"
    /\ \E f \in {""} \cup ListedAuthors :
          LET res == accept_changes(doc, f)
          IN doc' = res.d /\ second' = Call("accept", f, res)
    /\ phase' = "twice"
    /\ UNCHANGED <<nfrags, first, compareVars, commentVars, toolVars>>

\* track_changes.py reject <file> [--author f], f an author the listing shows
RejectListed ==
    /\ phase = "listed"
    /\ \E f \in {""} \cup ListedAuthors :
          LET res == reject_changes(doc, f)
          IN doc' = res.d /\ second' = Call("reject", f, res)
    /\ phase' = "twice"
    /\ UNCHANGED <<nfrags, first, compareVars, commentVars, toolVars>>

NextListing ==
    \/ List
    \/ AcceptListed
    \/ RejectListed

SpecListing == InitListing /\ [][NextListing]_vars

\* C28: every change the listing reports with author X is matched by
\* accept_changes and reject_changes run with author_filter X (its marker is
\* resolved and no longer in the document), markers without an author
\* attribute included.
C28_ListedAuthorMatches ==
    (second.action \in {"accept", "reject"} /\ second.filter # "") =>
        \A i \in 1..Len(first.after) :
            first.after[i].author = second.filter
                => first.after[i].element \notin InTree(second.after)

\* C29: the number of changes list_changes reports equals the count
\* accept_changes with no author filter reports on the same document.
C29_ListCountIsAcceptCount ==
    (second.action = "accept" /\ second.filter = "") => first.count = second.count

-----------------------------------------------------------------------------
(* format.py: fix_heading_hierarchy.  The document is the sequence of its  *)
(* paragraphs' styles, 'Heading n' as n and any other style as 0, and the  *)
(* set of the levels n whose style 'Heading n' the document defines.       *)

MaxLevel == 3
MaxParagraphs == 3

Levels == 1..MaxLevel

\* heading_paras: the paragraphs whose style name is 'Heading n', positions
\* in doc.paragraphs
HeadingParas(hs) == SelectSeq([i \in 1..Len(hs) |-> i], LAMBDA i : hs[i] # 0)

\* prev_level as the loop would set it from the level it read alone
PrevLevelAsRead(level, prev_level) == level

\* prev_level = level if level <= prev_level + 1 else prev_level + 1
PrevLevel(level, prev_level) ==
    IF level <= prev_level + 1 THEN level ELSE prev_level + 1

RECURSIVE FixLoop(_, _, _)
\* for para, level in heading_paras; st is [hs, fixes, prev_level]
FixLoop(st, heading_paras, defined) ==
    IF heading_paras = <<>> THEN st
    ELSE LET para == Head(heading_paras)
             level == st.hs[para]
             correct_level == st.prev_level + 1
             fixed == level > st.prev_level + 1 /\ correct_level \in defined
         IN FixLoop([hs |-> IF fixed THEN [st.hs EXCEPT ![para] = correct_level] ELSE st.hs,
                     fixes |-> IF fixed THEN st.fixes + 1 ELSE st.fixes,
                     prev_level |-> PrevLevel(level, st.prev_level)],
                    Tail(heading_paras), defined)

\* fix_heading_hierarchy(doc): the styles it leaves and the number it returns
fix_heading_hierarchy(hs, defined) ==
    IF HeadingParas(hs) = <<>> THEN [hs |-> hs, fixes |-> 0]
    ELSE LET st == FixLoop([hs |-> hs, fixes |-> 0, prev_level |-> 0],
                           HeadingParas(hs), defined)
         IN [hs |-> st.hs, fixes |-> st.fixes]

InitHeadings ==
    /\ phase = "open"
    /\ headings \in UNION {[1..k -> {0} \cup Levels] : k \in 0..MaxParagraphs}
    /\ styles \in SUBSET Levels
    /\ \A i \in 1..Len(headings) : headings[i] # 0 => headings[i] \in styles
    /\ files = <<>>
    /\ doc = EmptyBody
    /\ nfrags = 0
    /\ first = NoCall
    /\ second = NoCall
    /\ revisedParas = <<>>
    /\ granularity = "paragraph"
    /\ diffs = <<>>
    /\ NoComments

\* format.py <file> --fix-headings -o <file>
FixHeadings ==
    /\ phase \in {"open", "once"}
    /\ LET res == fix_heading_hierarchy(headings, styles)
           call == [action |-> "fix", filter |-> "", count |-> res.fixes,
                    before |-> headings, after |-> res.hs, saved |-> <<res.hs>>]
       IN /\ headings' = res.hs
          /\ IF phase = "open"
                THEN first' = call /\ UNCHANGED second
                ELSE second' = call /\ UNCHANGED first
    /\ phase' = IF phase = "open" THEN "once" ELSE "twice"
    /\ UNCHANGED <<doc, nfrags, compareVars, commentVars, files, styles>>

NextHeadings == FixHeadings

SpecHeadings == InitHeadings /\ [][NextHeadings]_vars

\* the heading levels of a document, in order
LevelsOf(hs) == SelectSeq(hs, LAMBDA l : l # 0)

\* C30: with every heading style defined, after fix_heading_hierarchy the
\* first heading has level 1 and every later heading is at most one level
\* below the heading before it; the number returned is the number of
\* headings whose level changed, and a second run returns zero.
C30_HeadingHierarchy ==
    styles = Levels =>
        /\ first.action = "fix" =>
              LET ls == LevelsOf(first.after)
              IN /\ ls # <<>> => ls[1] = 1
                 /\ \A i \in 2..Len(ls) : ls[i] <= ls[i - 1] + 1
                 /\ first.count = Cardinality({i \in 1..Len(first.before) :
                                                  first.before[i] # first.after[i]})
        /\ second.action = "fix" => second.count = 0 /\ second.after = second.before

\* two headings were moved up by the first run, and a second run was made
C30_Witness ==
    /\ styles = Levels
    /\ first.action = "fix" /\ first.count >= 2
    /\ second.action = "fix"

=============================================================================
